---------------------------- MODULE Spec2Model ----------------------------
(***************************************************************************)
(* Model of the analytics aggregation engine of the call-center dashboard: *)
(* the calendar arithmetic (src/lib/utils.ts, shipped as colors.ts), the   *)
(* result-code classifier and metrics derivation, the reducer, the         *)
(* consolidated fan-out, the /api/kpis route, the scorecard scoring        *)
(* functions, and the browser's data hook with fetchWithRetry.             *)
(*                                                                         *)
(* Numbers: JavaScript numbers are modelled as exact rationals <<n, d>>    *)
(* in lowest terms (d > 0).  Dates: a Date is [nan, day, ms] where day is  *)
(* the number of days since Jan 1 2023 (a Sunday) in the server's zone     *)
(* (taken to be UTC, without daylight saving) and ms the millisecond of    *)
(* the day; nan marks JavaScript's Invalid Date.                           *)
(***************************************************************************)
EXTENDS Integers, Sequences, FiniteSets, TLC

VARIABLES
    dIn,        \* DateRangeCalculator: the input of the call (a date or a range)
    dOut,       \* DateRangeCalculator: the function applied and what it returned
    store,      \* the data store: the rows of the call_<client> tables
    mRows,      \* per client, the rows its KPI query returned (fetchClientData)
    mKpis,      \* per client, the PeriodKPIs parsed from the rows
    mDone,      \* the clients fetched so far
    mSum,       \* the last reduction: its arguments and results
    unavailable,            \* the queries the store fails (the store is down for them)
    availableClientsCache,  \* the module-level cache of getAvailableClients
    fan,        \* the locals of one run of fetchConsolidatedKPIsWithDateRange
    route,      \* one request to GET /api/kpis: its parameters, queries and response
    hook,       \* usePerClientDataWithPeriod: its parameters, state and controller
    requests,   \* the fetchData calls of the hook, each with its fetchWithRetry loop
    apiCache,   \* the browser's response cache (apiCache), by URL
    sIn,        \* scorecard scoring: the inputs of the call
    sOut,       \* scorecard scoring: the function applied and what it returned
    per,        \* the locals of one run of fetchPerClientKPIsWithDateRange
    trend,      \* the locals of one run of fetchHistoricalTrends
    card,       \* the locals of one run of fetchAllClientsScorecardData
    fw          \* fetchWithRetry and the response cache: the clock, the entries, the calls

dateVars == <<dIn, dOut>>
metricVars == <<mRows, mKpis, mDone, mSum>>
fanVars == <<unavailable, availableClientsCache, fan>>
hookVars == <<hook, requests, apiCache>>
scoreVars == <<sIn, sOut>>
jobVars == <<per, trend, card, fw>>
vars == <<dIn, dOut, store, mRows, mKpis, mDone, mSum, unavailable, availableClientsCache,
          fan, route, hook, requests, apiCache, sIn, sOut, per, trend, card, fw>>

-----------------------------------------------------------------------------
(* Bounds of the model *)

\* reference dates are drawn from the years 2024 .. 2024 + YearSpan
YearSpan == 1
\* getSamePeriodLastMonth is given ranges of 0 .. MaxSpanDays days
MaxSpanDays == 31
\* the store of the metrics specification holds at most MaxCalls calls
MaxCalls == 3
\* getWeeklyAverageRange is applied for 1 .. MaxWeeks weeks
MaxWeeks == 5

-----------------------------------------------------------------------------
(* JavaScript Date *)

Years == 2024 .. (2024 + YearSpan)
\* years the calendar conversions cover (results may leave the input years)
CalYears == 2023 .. (2024 + YearSpan + 1)

IsLeap(y) == (y % 4 = 0 /\ y % 100 # 0) \/ y % 400 = 0

\* m is a month index 0..11, as in Date.getMonth()
DaysInMonth(y, m) ==
    IF m = 1 THEN (IF IsLeap(y) THEN 29 ELSE 28)
    ELSE IF m \in {3, 5, 8, 10} THEN 30 ELSE 31

DaysInYear(y) == IF IsLeap(y) THEN 366 ELSE 365

\* days from Jan 1 2023 (a Sunday) to Jan 1 of year y
DaysBeforeYear(y) ==
    365 * (y - 2023) + Cardinality({yy \in 2023 .. (y - 1) : IsLeap(yy)})

\* days from Jan 1 of year y to the first of month m
DaysBeforeMonth(y, m) ==
    <<0, 31, 59, 90, 120, 151, 181, 212, 243, 273, 304, 334>>[m + 1]
        + (IF m > 1 /\ IsLeap(y) THEN 1 ELSE 0)

\* new Date(y, m, d): month index and day of month may be out of range and roll over
MakeDay(y, m, d) ==
    DaysBeforeYear((y * 12 + m) \div 12)
        + DaysBeforeMonth((y * 12 + m) \div 12, (y * 12 + m) % 12) + d - 1

\* the calendar date <<year, month index, day of month>> of each day number
Calendar ==
    [n \in 0 .. (DaysBeforeYear(2024 + YearSpan + 2) - 1) |->
        LET y == CHOOSE yy \in CalYears :
                     DaysBeforeYear(yy) <= n /\ n < DaysBeforeYear(yy) + DaysInYear(yy)
            r == n - DaysBeforeYear(y)
            m == CHOOSE mm \in 0 .. 11 :
                     DaysBeforeMonth(y, mm) <= r /\ r < DaysBeforeMonth(y, mm) + DaysInMonth(y, mm)
        IN  <<y, m, r - DaysBeforeMonth(y, m) + 1>>]

YearOfDay(n) == Calendar[n][1]
MonthOfDay(n) == Calendar[n][2]
DateOfDay(n) == Calendar[n][3]

StartOfDay == 0
EndOfDay == 86399999

NaNDate == [nan |-> TRUE, day |-> 0, ms |-> 0]
NewDate(y, m, d) == [nan |-> FALSE, day |-> MakeDay(y, m, d), ms |-> StartOfDay]

GetFullYear(date) == YearOfDay(date.day)
GetMonth(date) == MonthOfDay(date.day)
GetDate(date) == DateOfDay(date.day)
GetDay(date) == date.day % 7

SetDate(date, n) ==
    IF date.nan THEN date
    ELSE [date EXCEPT !.day = MakeDay(GetFullYear(date), GetMonth(date), n)]

SetMonth(date, m) ==
    IF date.nan THEN date
    ELSE [date EXCEPT !.day = MakeDay(GetFullYear(date), m, GetDate(date))]

SetHours(date, msOfDay) ==
    IF date.nan THEN date ELSE [date EXCEPT !.ms = msOfDay]

DateLE(a, b) == a.day < b.day \/ (a.day = b.day /\ a.ms <= b.ms)

MonthNames ==
    <<"Jan", "Feb", "Mar", "Apr", "May", "Jun", "Jul", "Aug", "Sep", "Oct", "Nov", "Dec">>

formatDateRange(start, end) ==
    IF start.nan \/ end.nan
    THEN  \* NaN === NaN is false, so neither sameMonth nor sameYear holds
          (IF start.nan THEN "undefined NaN, NaN" ELSE
              MonthNames[GetMonth(start) + 1] \o " " \o ToString(GetDate(start)) \o ", "
                  \o ToString(GetFullYear(start)))
          \o " - " \o
          (IF end.nan THEN "undefined NaN, NaN" ELSE
              MonthNames[GetMonth(end) + 1] \o " " \o ToString(GetDate(end)) \o ", "
                  \o ToString(GetFullYear(end)))
    ELSE IF GetMonth(start) = GetMonth(end) /\ GetFullYear(start) = GetFullYear(end)
    THEN MonthNames[GetMonth(start) + 1] \o " " \o ToString(GetDate(start)) \o "-"
             \o ToString(GetDate(end)) \o ", " \o ToString(GetFullYear(start))
    ELSE IF GetFullYear(start) = GetFullYear(end)
    THEN MonthNames[GetMonth(start) + 1] \o " " \o ToString(GetDate(start)) \o " - "
             \o MonthNames[GetMonth(end) + 1] \o " " \o ToString(GetDate(end)) \o ", "
             \o ToString(GetFullYear(start))
    ELSE MonthNames[GetMonth(start) + 1] \o " " \o ToString(GetDate(start)) \o ", "
             \o ToString(GetFullYear(start)) \o " - "
             \o MonthNames[GetMonth(end) + 1] \o " " \o ToString(GetDate(end)) \o ", "
             \o ToString(GetFullYear(end))

formatMonthYear(date) ==
    IF date.nan THEN "undefined-aN"
    ELSE MonthNames[GetMonth(date) + 1] \o "-" \o ToString(GetFullYear(date) % 100)

-----------------------------------------------------------------------------
(* DateRangeCalculator *)

\* a range record; its fields are computed once, as the locals of the functions
DateRange(start, end, label) == [start |-> start, end |-> end, label |-> label]
Labelled(start, end) == DateRange(start, end, formatDateRange(start, end))
NaNRange == Labelled(NaNDate, NaNDate)

getWeekRange(date) ==
    LET Week(sunday) ==
            Labelled(sunday, SetHours(SetDate(sunday, GetDate(sunday) + 6), EndOfDay))
    IN  IF date.nan THEN NaNRange
        ELSE Week(SetHours(SetDate(date, GetDate(date) - GetDay(date)), StartOfDay))

getWeekToDateRange(date) ==
    IF date.nan THEN NaNRange
    ELSE Labelled(SetHours(SetDate(date, GetDate(date) - GetDay(date)), StartOfDay),
                  SetHours(date, EndOfDay))

getMonthToDateRange(date) ==
    IF date.nan THEN NaNRange
    ELSE Labelled(SetHours(NewDate(GetFullYear(date), GetMonth(date), 1), StartOfDay),
                  SetHours(date, EndOfDay))

\* a previous week that runs through the Sunday the current week starts on
getPreviousWeekRange_throughSunday(date) ==
    LET Week(prevSunday) ==
            Labelled(prevSunday, SetHours(SetDate(prevSunday, GetDate(prevSunday) + 7), EndOfDay))
        From(currentWeek) == Week(SetDate(currentWeek.start, GetDate(currentWeek.start) - 7))
    IN  IF date.nan THEN NaNRange ELSE From(getWeekRange(date))

getPreviousWeekRange(date) ==
    LET Week(prevSunday) ==
            Labelled(prevSunday, SetHours(SetDate(prevSunday, GetDate(prevSunday) + 6), EndOfDay))
        From(currentWeek) == Week(SetDate(currentWeek.start, GetDate(currentWeek.start) - 7))
    IN  IF date.nan THEN NaNRange ELSE From(getWeekRange(date))

getSamePeriodLastMonth(range) ==
    LET Clamp(startPrevMonth, rolled, daysInPrevMonth) ==
            Labelled(startPrevMonth,
                     IF GetDate(rolled) > daysInPrevMonth
                     THEN SetDate(rolled, daysInPrevMonth) ELSE rolled)
        Shifted(startPrevMonth, rolled) ==
            Clamp(startPrevMonth, rolled,
                  GetDate(NewDate(GetFullYear(startPrevMonth), GetMonth(startPrevMonth) + 1, 0)))
    IN  IF range.start.nan \/ range.end.nan THEN NaNRange
        ELSE Shifted(SetMonth(range.start, GetMonth(range.start) - 1),
                     SetMonth(range.end, GetMonth(range.end) - 1))

\* a range counted back from the date itself instead of from its week's Sunday
getWeeklyAverageRange_fromDate(date, weeks) ==
    IF date.nan
    THEN DateRange(NaNDate, NaNDate, "Past " \o ToString(weeks) \o " weeks avg")
    ELSE DateRange(SetHours(SetDate(date, GetDate(date) - (weeks * 7)), StartOfDay),
                   SetHours(SetDate(date, GetDate(date) - 1), EndOfDay),
                   "Past " \o ToString(weeks) \o " weeks avg")

getWeeklyAverageRange(date, weeks) ==
    LET From(currentWeek) ==
            DateRange(SetDate(currentWeek.start, GetDate(currentWeek.start) - (weeks * 7)),
                      SetHours(SetDate(currentWeek.start, GetDate(currentWeek.start) - 1),
                               EndOfDay),
                      "Past " \o ToString(weeks) \o " weeks avg")
    IN  IF date.nan
        THEN DateRange(NaNDate, NaNDate, "Past " \o ToString(weeks) \o " weeks avg")
        ELSE From(getWeekRange(date))

getMonthRange(date) ==
    IF date.nan THEN DateRange(NaNDate, NaNDate, formatMonthYear(date))
    ELSE DateRange(SetHours(NewDate(GetFullYear(date), GetMonth(date), 1), StartOfDay),
                   SetHours(NewDate(GetFullYear(date), GetMonth(date) + 1, 0), EndOfDay),
                   formatMonthYear(date))

getPreviousMonthRange(date) ==
    IF date.nan THEN getMonthRange(NaNDate)
    ELSE getMonthRange(NewDate(GetFullYear(date), GetMonth(date) - 1, 1))

getRolling7DayRange(date) ==
    IF date.nan THEN NaNRange
    ELSE Labelled(SetHours(SetDate(date, GetDate(date) - 6), StartOfDay),
                  SetHours(date, EndOfDay))

ComparisonTypes == {"mom", "wow", "mtd", "wtd"}

PeriodConfig(periodType, currentRange, comparisonRange, comparisonLabel) ==
    [periodType |-> periodType, currentRange |-> currentRange,
     comparisonRange |-> comparisonRange, comparisonLabel |-> comparisonLabel]

RECURSIVE getPeriodConfig(_, _)
getPeriodConfig(comparisonType, referenceDate) ==
    LET Versus(periodType, currentRange, comparisonRange) ==
            PeriodConfig(periodType, currentRange, comparisonRange,
                         "vs " \o comparisonRange.label)
        MonthToDate(currentRange) ==
            Versus("mtd", currentRange, getSamePeriodLastMonth(currentRange))
    IN  CASE comparisonType = "mom" ->
                Versus("mom", getMonthRange(referenceDate), getPreviousMonthRange(referenceDate))
          [] comparisonType = "wow" ->
                PeriodConfig("wow", getWeekRange(referenceDate),
                             getPreviousWeekRange(referenceDate), "vs last week")
          [] comparisonType = "mtd" -> MonthToDate(getMonthToDateRange(referenceDate))
          [] comparisonType = "wtd" ->
                PeriodConfig("wtd", getWeekToDateRange(referenceDate),
                             getWeeklyAverageRange(referenceDate, 4), "vs 4-week avg")
          [] OTHER -> getPeriodConfig("mom", referenceDate)

-----------------------------------------------------------------------------
(* Numbers: exact rationals <<numerator, denominator>> in lowest terms *)

RECURSIVE GCD(_, _)
GCD(a, b) == IF b = 0 THEN a ELSE GCD(b, a % b)

Abs(n) == IF n < 0 THEN -n ELSE n
Min(a, b) == IF a <= b THEN a ELSE b

RNorm(n, d) ==
    LET g == GCD(Abs(n), d)
    IN  IF n = 0 THEN <<0, 1>> ELSE <<n \div g, d \div g>>

R(n) == <<n, 1>>
RAdd(a, b) == RNorm(a[1] * b[2] + b[1] * a[2], a[2] * b[2])
RSub(a, b) == RNorm(a[1] * b[2] - b[1] * a[2], a[2] * b[2])
RMul(a, b) == RNorm(a[1] * b[1], a[2] * b[2])
\* a / b for b # 0
RDiv(a, b) ==
    IF b[1] > 0 THEN RNorm(a[1] * b[2], a[2] * b[1])
    ELSE RNorm(-(a[1] * b[2]), -(a[2] * b[1]))
RLe(a, b) == a[1] * b[2] <= b[1] * a[2]
RLt(a, b) == a[1] * b[2] < b[1] * a[2]

RECURSIVE SumInt(_, _)
SumInt(S, f) ==
    IF S = {} THEN 0
    ELSE LET x == CHOOSE x \in S : TRUE IN f[x] + SumInt(S \ {x}, f)

RECURSIVE SumRat(_, _)
SumRat(S, f) ==
    IF S = {} THEN R(0)
    ELSE LET x == CHOOSE x \in S : TRUE IN RAdd(f[x], SumRat(S \ {x}, f))

-----------------------------------------------------------------------------
(* ResultCodeClassifier and the KPI query *)

NON_CONNECT_RESULTS ==
    {"NOA", "ANX", "VML", "DEADAIR", "BADNO", "BLOCKED", "DAI", "DIS",
     "BGN", "DIALING", "ATTEMPTING"}
NON_RPC_RESULTS == {"TPI", "WRONGNO", "XCSN", "WRN", "CHECKNO", "NID"}
TRANSFER_RESULTS == {"XCSV", "XCSN", "XCSP", "XCS", "XCSR", "TDNC", "SARI"}
PTP_RESULTS == {"POP", "FCC", "FCC-F", "PHO", "PHO-F", "XCSP"}
CASH_RESULTS == {"PHO", "FCC"}

\* TEST_ACCOUNTS and TEST_PHONE_NUMBERS, by one representative each
TEST_ACCOUNTS == {"TEST-ACCOUNT"}
TEST_PHONE_NUMBERS == {"TEST-PHONE"}

\* formatDateTimeForQuery / formatDateTimeEndForQuery: the local calendar day of
\* the date, with a fixed time of day; the time of day of the date is dropped
formatDateTimeForQuery(date) ==
    IF date.nan THEN [nan |-> TRUE, y |-> 0, m |-> 0, d |-> 0, sec |-> 0]
    ELSE [nan |-> FALSE, y |-> GetFullYear(date), m |-> GetMonth(date) + 1,
          d |-> GetDate(date), sec |-> 0]

formatDateTimeEndForQuery(date) ==
    IF date.nan THEN [nan |-> TRUE, y |-> 0, m |-> 0, d |-> 0, sec |-> 86399]
    ELSE [nan |-> FALSE, y |-> GetFullYear(date), m |-> GetMonth(date) + 1,
          d |-> GetDate(date), sec |-> 86399]

\* the list of result codes the rpcs column excludes
nonRpcList == NON_CONNECT_RESULTS \cup NON_RPC_RESULTS

\* the countIf conditions of the query: the funnel buckets of one call
isConnect(c) == c.result \notin NON_CONNECT_RESULTS
isRPC_ignoresNonConnect(c) == c.result \notin NON_RPC_RESULTS
isRPC(c) == c.result \notin nonRpcList
\* a promise counted from the notated flag alone
isPromise_notatedOnly(c) == c.notated_promise_to_pay = 1
isPromise(c) == c.result \in PTP_RESULTS \/ c.notated_promise_to_pay = 1
isCashPayment(c) == c.result \in CASH_RESULTS
isTransfer(c) == c.result \in TRANSFER_RESULTS

\* the query text is represented by its three parameters
buildClientKPIQuery(client, startDate, endDate) ==
    [client |-> client, startDate |-> startDate, endDate |-> endDate]

\* toDateTime('YYYY-MM-DD hh:mm:ss', 'UTC') as seconds on the model's day scale
toDateTime(t) == MakeDay(t.y, t.m - 1, t.d) * 86400 + t.sec
StartTime(c) == c.day * 86400 + c.sec

\* the WHERE clause of the query
Selected(calls, q) ==
    {c \in calls :
        /\ c.client = q.client
        /\ StartTime(c) >= toDateTime(q.startDate)
        /\ StartTime(c) < toDateTime(q.endDate)
        /\ c.account_number \notin (TEST_ACCOUNTS \cup {""})
        /\ c.phone_number \notin TEST_PHONE_NUMBERS}

Count(S) == Cardinality(S)

\* the SELECT ... GROUP BY c.model, c.direction of the query, over the calls table
QueryRows(calls, q) ==
    LET sel == Selected(calls, q)
        groups == {<<c.model, c.direction>> : c \in sel}
        grp(g) == {c \in sel : c.model = g[1] /\ c.direction = g[2]}
    IN  {[model |-> g[1],
          direction |-> g[2],
          accounts |-> Count({c.account_number : c \in grp(g)}),
          calls |-> Count(grp(g)),
          connects |-> Count({c \in grp(g) : isConnect(c)}),
          rpcs |-> Count({c \in grp(g) : isRPC(c)}),
          promises |-> Count({c \in grp(g) : isPromise(c)}),
          cash_payments |-> Count({c \in grp(g) : isCashPayment(c)}),
          transfers |-> Count({c \in grp(g) : isTransfer(c)}),
          duration_minutes |-> RDiv(R(SumInt(grp(g), [c \in grp(g) |-> c.duration])), R(60)),
          completed_verifications |-> Count({c \in grp(g) : c.is_resolved = 1}),
          dollar_promised |-> SumInt(grp(g), [c \in grp(g) |-> c.amount]),
          dollar_collected |-> SumInt(grp(g), [c \in grp(g) |-> c.payment_amount])] :
        g \in groups}

-----------------------------------------------------------------------------
(* MetricsDerivation *)

emptyCollectionsMetrics ==
    [accounts |-> R(0), calls |-> R(0), callsPerAccount |-> R(0), connects |-> R(0),
     connectRate |-> R(0), rpcs |-> R(0), rpcRate |-> R(0), promises |-> R(0),
     promisesPerRpc |-> R(0), cashPayments |-> R(0), cashPerRpc |-> R(0),
     cashPerPromises |-> R(0), transfers |-> R(0), transfersPerRpc |-> R(0),
     timeOnCallHours |-> R(0), avgTimePerCallMin |-> R(0), dollarPromised |-> R(0),
     dollarCollected |-> R(0), avgPaymentAmount |-> R(0), dollarPerRpc |-> R(0)]

emptyWelcomeVerificationMetrics ==
    [accounts |-> R(0), calls |-> R(0), callsPerAccount |-> R(0), connects |-> R(0),
     connectRate |-> R(0), rpcs |-> R(0), rpcRate |-> R(0), eligible |-> R(0),
     eligiblePerRpc |-> R(0), completed |-> R(0), completedPerEligible |-> R(0),
     completedPerRpc |-> R(0), incomplete |-> R(0)]

emptyPeriodKPIs ==
    [collections |-> emptyCollectionsMetrics, inbound |-> emptyCollectionsMetrics,
     welcome |-> emptyWelcomeVerificationMetrics,
     verification |-> emptyWelcomeVerificationMetrics]

\* the number a / b: for b = 0 it is NaN, written <<0, 0>>, when a = 0 and
\* Infinity, written <<1, 0>>, when a > 0
Divide(a, b) ==
    IF b[1] = 0 THEN (IF a[1] = 0 THEN <<0, 0>> ELSE <<1, 0>>) ELSE RDiv(a, b)

\* a division without the guard on the denominator
safeDivide_unguarded(numerator, denominator) == Divide(numerator, denominator)

safeDivide(numerator, denominator) ==
    IF denominator = R(0) THEN R(0) ELSE RDiv(numerator, denominator)

\* rpcRate with the operands of its division exchanged
calculateDerivedCollectionsMetrics_rpcRateInverted(raw) ==
    [accounts |-> raw.accounts,
     calls |-> raw.calls,
     callsPerAccount |-> safeDivide(raw.calls, raw.accounts),
     connects |-> raw.connects,
     connectRate |-> RMul(safeDivide(raw.connects, raw.calls), R(100)),
     rpcs |-> raw.rpcs,
     rpcRate |-> RMul(safeDivide(raw.connects, raw.rpcs), R(100)),
     promises |-> raw.promises,
     promisesPerRpc |-> RMul(safeDivide(raw.promises, raw.rpcs), R(100)),
     cashPayments |-> raw.cashPayments,
     cashPerRpc |-> RMul(safeDivide(raw.cashPayments, raw.rpcs), R(100)),
     cashPerPromises |-> RMul(safeDivide(raw.cashPayments, raw.promises), R(100)),
     transfers |-> raw.transfers,
     transfersPerRpc |-> RMul(safeDivide(raw.transfers, raw.rpcs), R(100)),
     timeOnCallHours |-> RDiv(raw.durationMinutes, R(60)),
     avgTimePerCallMin |-> safeDivide(raw.durationMinutes, raw.calls),
     dollarPromised |-> raw.dollarPromised,
     dollarCollected |-> raw.dollarCollected,
     avgPaymentAmount |-> safeDivide(raw.dollarCollected, raw.cashPayments),
     dollarPerRpc |-> safeDivide(raw.dollarCollected, raw.rpcs)]

calculateDerivedCollectionsMetrics(raw) ==
    [accounts |-> raw.accounts,
     calls |-> raw.calls,
     callsPerAccount |-> safeDivide(raw.calls, raw.accounts),
     connects |-> raw.connects,
     connectRate |-> RMul(safeDivide(raw.connects, raw.calls), R(100)),
     rpcs |-> raw.rpcs,
     rpcRate |-> RMul(safeDivide(raw.rpcs, raw.connects), R(100)),
     promises |-> raw.promises,
     promisesPerRpc |-> RMul(safeDivide(raw.promises, raw.rpcs), R(100)),
     cashPayments |-> raw.cashPayments,
     cashPerRpc |-> RMul(safeDivide(raw.cashPayments, raw.rpcs), R(100)),
     cashPerPromises |-> RMul(safeDivide(raw.cashPayments, raw.promises), R(100)),
     transfers |-> raw.transfers,
     transfersPerRpc |-> RMul(safeDivide(raw.transfers, raw.rpcs), R(100)),
     timeOnCallHours |-> RDiv(raw.durationMinutes, R(60)),
     avgTimePerCallMin |-> safeDivide(raw.durationMinutes, raw.calls),
     dollarPromised |-> raw.dollarPromised,
     dollarCollected |-> raw.dollarCollected,
     avgPaymentAmount |-> safeDivide(raw.dollarCollected, raw.cashPayments),
     dollarPerRpc |-> safeDivide(raw.dollarCollected, raw.rpcs)]

calculateDerivedWelcomeMetrics(raw) ==
    [accounts |-> raw.accounts,
     calls |-> raw.calls,
     callsPerAccount |-> safeDivide(raw.calls, raw.accounts),
     connects |-> raw.connects,
     connectRate |-> RMul(safeDivide(raw.connects, raw.calls), R(100)),
     rpcs |-> raw.rpcs,
     rpcRate |-> RMul(safeDivide(raw.rpcs, raw.connects), R(100)),
     eligible |-> raw.eligible,
     eligiblePerRpc |-> RMul(safeDivide(raw.eligible, raw.rpcs), R(100)),
     completed |-> raw.completed,
     completedPerEligible |-> RMul(safeDivide(raw.completed, raw.eligible), R(100)),
     completedPerRpc |-> RMul(safeDivide(raw.completed, raw.rpcs), R(100)),
     incomplete |-> RSub(raw.eligible, raw.completed)]

\* String.toLowerCase on the model and direction names the store holds
toLowerCase(str) ==
    CASE str = "Collections" -> "collections"
      [] str = "Inbound" -> "inbound"
      [] OTHER -> str

\* the raw accumulator of one category: the rows of the category, summed
CollectionsRawOf(rs) ==
    [accounts |-> R(SumInt(rs, [r \in rs |-> r.accounts])),
     calls |-> R(SumInt(rs, [r \in rs |-> r.calls])),
     connects |-> R(SumInt(rs, [r \in rs |-> r.connects])),
     rpcs |-> R(SumInt(rs, [r \in rs |-> r.rpcs])),
     promises |-> R(SumInt(rs, [r \in rs |-> r.promises])),
     cashPayments |-> R(SumInt(rs, [r \in rs |-> r.cash_payments])),
     transfers |-> R(SumInt(rs, [r \in rs |-> r.transfers])),
     durationMinutes |-> SumRat(rs, [r \in rs |-> r.duration_minutes]),
     dollarPromised |-> R(SumInt(rs, [r \in rs |-> r.dollar_promised])),
     dollarCollected |-> R(SumInt(rs, [r \in rs |-> r.dollar_collected]))]

WelcomeRawOf(rs) ==
    [accounts |-> R(SumInt(rs, [r \in rs |-> r.accounts])),
     calls |-> R(SumInt(rs, [r \in rs |-> r.calls])),
     connects |-> R(SumInt(rs, [r \in rs |-> r.connects])),
     rpcs |-> R(SumInt(rs, [r \in rs |-> r.rpcs])),
     eligible |-> R(SumInt(rs, [r \in rs |-> r.rpcs])),
     completed |-> R(SumInt(rs, [r \in rs |-> r.completed_verifications]))]

\* which accumulator of parseKPIResults a row is added to
CategoryOf(row) ==
    LET model == toLowerCase(row.model)
        direction == toLowerCase(row.direction)
    IN  IF model = "collections"
        THEN (IF direction = "inbound" THEN "inbound" ELSE "collections")
        ELSE IF model = "welcome" THEN "welcome"
        ELSE IF model = "verification" THEN "verification"
        ELSE IF model = "inbound" THEN "inbound"
        ELSE "none"

\* the four accumulators of parseKPIResults after its loop over the rows
RawOf(rows) ==
    LET of(cat) == {r \in rows : CategoryOf(r) = cat}
    IN  [collections |-> CollectionsRawOf(of("collections")),
         inbound |-> CollectionsRawOf(of("inbound")),
         welcome |-> WelcomeRawOf(of("welcome")),
         verification |-> WelcomeRawOf(of("verification"))]

parseKPIResults(rows) ==
    LET raw == RawOf(rows)
    IN  [collections |-> calculateDerivedCollectionsMetrics(raw.collections),
         inbound |-> calculateDerivedCollectionsMetrics(raw.inbound),
         welcome |-> calculateDerivedWelcomeMetrics(raw.welcome),
         verification |-> calculateDerivedWelcomeMetrics(raw.verification)]

-----------------------------------------------------------------------------
(* AggregateReducer *)

SumCollections(a, b) ==
    [accounts |-> RAdd(a.accounts, b.accounts),
     calls |-> RAdd(a.calls, b.calls),
     callsPerAccount |-> R(0),
     connects |-> RAdd(a.connects, b.connects),
     connectRate |-> R(0),
     rpcs |-> RAdd(a.rpcs, b.rpcs),
     rpcRate |-> R(0),
     promises |-> RAdd(a.promises, b.promises),
     promisesPerRpc |-> R(0),
     cashPayments |-> RAdd(a.cashPayments, b.cashPayments),
     cashPerRpc |-> R(0),
     cashPerPromises |-> R(0),
     transfers |-> RAdd(a.transfers, b.transfers),
     transfersPerRpc |-> R(0),
     timeOnCallHours |-> RAdd(a.timeOnCallHours, b.timeOnCallHours),
     avgTimePerCallMin |-> R(0),
     dollarPromised |-> RAdd(a.dollarPromised, b.dollarPromised),
     dollarCollected |-> RAdd(a.dollarCollected, b.dollarCollected),
     avgPaymentAmount |-> R(0),
     dollarPerRpc |-> R(0)]

SumWelcome(a, b) ==
    [accounts |-> RAdd(a.accounts, b.accounts),
     calls |-> RAdd(a.calls, b.calls),
     callsPerAccount |-> R(0),
     connects |-> RAdd(a.connects, b.connects),
     connectRate |-> R(0),
     rpcs |-> RAdd(a.rpcs, b.rpcs),
     rpcRate |-> R(0),
     eligible |-> RAdd(a.eligible, b.eligible),
     eligiblePerRpc |-> R(0),
     completed |-> RAdd(a.completed, b.completed),
     completedPerEligible |-> R(0),
     completedPerRpc |-> R(0),
     incomplete |-> RAdd(a.incomplete, b.incomplete)]

\* the inbound category taken from the first argument instead of summed
sumPeriodKPIs_inboundNotSummed(a, b) ==
    [collections |-> SumCollections(a.collections, b.collections),
     inbound |-> a.inbound,
     welcome |-> SumWelcome(a.welcome, b.welcome),
     verification |-> SumWelcome(a.verification, b.verification)]

sumPeriodKPIs(a, b) ==
    [collections |-> SumCollections(a.collections, b.collections),
     inbound |-> SumCollections(a.inbound, b.inbound),
     welcome |-> SumWelcome(a.welcome, b.welcome),
     verification |-> SumWelcome(a.verification, b.verification)]

RecalcCollections(m) ==
    calculateDerivedCollectionsMetrics(
        [accounts |-> m.accounts, calls |-> m.calls, connects |-> m.connects,
         rpcs |-> m.rpcs, promises |-> m.promises, cashPayments |-> m.cashPayments,
         transfers |-> m.transfers,
         durationMinutes |-> RMul(m.timeOnCallHours, R(60)),
         dollarPromised |-> m.dollarPromised, dollarCollected |-> m.dollarCollected])

RecalcWelcome(m) ==
    calculateDerivedWelcomeMetrics(
        [accounts |-> m.accounts, calls |-> m.calls, connects |-> m.connects,
         rpcs |-> m.rpcs, eligible |-> m.eligible, completed |-> m.completed])

\* the summed record returned without recomputing its derived fields
recalculateDerivedMetrics_skipped(kpis) == kpis

recalculateDerivedMetrics(kpis) ==
    [collections |-> RecalcCollections(kpis.collections),
     inbound |-> RecalcCollections(kpis.inbound),
     welcome |-> RecalcWelcome(kpis.welcome),
     verification |-> RecalcWelcome(kpis.verification)]

-----------------------------------------------------------------------------
(* Specification of the DateRangeCalculator: a reference date is drawn, and *)
(* one exported function is applied to it.                                  *)

SampleMs == {StartOfDay, 43200000, EndOfDay}

InputDates ==
    {[nan |-> FALSE, day |-> n, ms |-> t] :
        n \in MakeDay(2024, 0, 1) .. MakeDay(2024 + YearSpan, 11, 31), t \in SampleMs}
    \cup {NaNDate}

NoRange == [start |-> NaNDate, end |-> NaNDate, label |-> ""]
NoCall == [fn |-> "none", arg |-> NoRange, type |-> "", result |-> NoRange]

DateIdle ==
    /\ dIn = NaNDate
    /\ dOut = NoCall

MClients == {"exeter", "aca", "cps"}

NoCache == [valid |-> FALSE]

FanIdle ==
    /\ unavailable = {}
    /\ availableClientsCache = NoCache
    /\ fan = [pc |-> "idle"]

RouteIdle == route = [pc |-> "idle"]

HookIdle ==
    /\ hook = [pc |-> "idle"]
    /\ requests = << >>
    /\ apiCache = {}

ScoreIdle ==
    /\ sIn = << >>
    /\ sOut = [fn |-> "none"]

FwIdle == fw = [now |-> 0, cache |-> {}, calls |-> << >>]

JobIdle ==
    /\ per = [pc |-> "idle"]
    /\ trend = [pc |-> "idle"]
    /\ card = [pc |-> "idle"]
    /\ FwIdle

MetricsIdle ==
    /\ mRows = << >>
    /\ mKpis = << >>
    /\ mDone = {}
    /\ mSum = [kind |-> "none"]

DateInit ==
    /\ dIn \in InputDates
    /\ dOut = NoCall
    /\ store = {}
    /\ MetricsIdle
    /\ FanIdle
    /\ RouteIdle
    /\ HookIdle
    /\ ScoreIdle
    /\ JobIdle

Returned(fn, arg, type, result) ==
    /\ dOut = NoCall
    /\ dOut' = [fn |-> fn, arg |-> arg, type |-> type, result |-> result]
    /\ UNCHANGED <<dIn, store, metricVars, fanVars, route, hookVars, scoreVars, jobVars>>

Call_getWeekRange == Returned("getWeekRange", NoRange, "", getWeekRange(dIn))
Call_getWeekToDateRange == Returned("getWeekToDateRange", NoRange, "", getWeekToDateRange(dIn))
Call_getMonthToDateRange == Returned("getMonthToDateRange", NoRange, "", getMonthToDateRange(dIn))
Call_getPreviousWeekRange == Returned("getPreviousWeekRange", NoRange, "", getPreviousWeekRange(dIn))
Call_getMonthRange == Returned("getMonthRange", NoRange, "", getMonthRange(dIn))
Call_getPreviousMonthRange == Returned("getPreviousMonthRange", NoRange, "", getPreviousMonthRange(dIn))
Call_getRolling7DayRange == Returned("getRolling7DayRange", NoRange, "", getRolling7DayRange(dIn))
\* the number of weeks is drawn from 1 .. MaxWeeks and kept with the result
Call_getWeeklyAverageRange ==
    /\ dOut = NoCall
    /\ \E weeks \in 1 .. MaxWeeks :
          dOut' = [fn |-> "getWeeklyAverageRange", arg |-> NoRange, type |-> "",
                   result |-> getWeeklyAverageRange(dIn, weeks), weeks |-> weeks]
    /\ UNCHANGED <<dIn, store, metricVars, fanVars, route, hookVars, scoreVars, jobVars>>

\* the argument is a range of whole days that starts on the reference date, as
\* getMonthToDateRange and getWeekToDateRange build them
Call_getSamePeriodLastMonth ==
    /\ ~dIn.nan
    /\ dIn.ms = StartOfDay
    /\ \E k \in 0 .. MaxSpanDays :
          LET arg == [start |-> dIn,
                      end |-> [nan |-> FALSE, day |-> dIn.day + k, ms |-> EndOfDay],
                      label |-> ""]
          IN  Returned("getSamePeriodLastMonth", arg, "", getSamePeriodLastMonth(arg))

\* getPeriodConfig returns both ranges; the comparison range is kept as the result
Call_getPeriodConfig ==
    LET Config(cfg) ==
            Returned("getPeriodConfig", cfg.currentRange, cfg.periodType,
                     [cfg.comparisonRange EXCEPT !.label = cfg.comparisonLabel])
    IN  \E type \in ComparisonTypes \cup {"bogus"} : Config(getPeriodConfig(type, dIn))

DateNext ==
    \/ Call_getWeekRange
    \/ Call_getWeekToDateRange
    \/ Call_getMonthToDateRange
    \/ Call_getPreviousWeekRange
    \/ Call_getMonthRange
    \/ Call_getPreviousMonthRange
    \/ Call_getRolling7DayRange
    \/ Call_getWeeklyAverageRange
    \/ Call_getSamePeriodLastMonth
    \/ Call_getPeriodConfig

SpecDate == DateInit /\ [][DateNext]_vars

-----------------------------------------------------------------------------
(* Specification of classification, derivation and reduction: the store is *)
(* drawn, each client's KPI query is run and parsed (fetchClientData), and *)
(* the parsed records are reduced.                                         *)

Call(id, client, day, sec, result, ptp, model, direction, account, phone, duration, amount, payment, resolved) ==
    [id |-> id, client |-> client, day |-> day, sec |-> sec, result |-> result,
     notated_promise_to_pay |-> ptp, model |-> model, direction |-> direction,
     account_number |-> account, phone_number |-> phone, duration |-> duration,
     amount |-> amount, payment_amount |-> payment, is_resolved |-> resolved]

MDay == MakeDay(2025, 0, 15)

MetricsPool ==
    { Call(1, "aca", MDay, 100, "NOA", 1, "collections", "outbound", "A1", "P1", 30, 0, 0, 0),
      Call(2, "aca", MDay, 200, "XCSN", 0, "collections", "outbound", "A1", "P1", 120, 0, 0, 0),
      Call(3, "aca", MDay, 300, "POP", 0, "collections", "outbound", "A2", "P2", 300, 100, 0, 0),
      Call(4, "aca", MDay, 400, "PHO", 0, "collections", "outbound", "A2", "P2", 240, 50, 50, 0),
      Call(5, "aca", MDay, 500, "TPI", 0, "Collections", "Inbound", "A3", "P3", 60, 0, 0, 0),
      Call(6, "aca", MDay, 600, "TTB", 0, "welcome", "outbound", "A4", "P4", 90, 0, 0, 1),
      Call(7, "aca", MDay, 700, "POP", 0, "collections", "outbound", "TEST-ACCOUNT", "P5", 60, 10, 0, 0),
      Call(8, "aca", MDay, 800, "XCSV", 0, "collections", "outbound", "A5", "P6", 150, 0, 0, 0),
      Call(9, "cps", MDay, 200, "WRN", 0, "verification", "outbound", "B2", "P7", 45, 0, 0, 0),
      Call(10, "cps", MDay, 300, "FCC-F", 0, "inbound", "inbound", "B3", "P8", 200, 75, 0, 0),
      Call(11, "cps", MDay + 30, 300, "POP", 0, "collections", "outbound", "B3", "P8", 200, 75, 0, 0),
      Call(12, "exeter", MDay, 100, "PHO", 0, "collections", "outbound", "E1", "P9", 180, 20, 20, 0),
      Call(13, "exeter", MDay, 300, "TTB", 1, "verification", "outbound", "E3", "TEST-PHONE", 10, 0, 0, 1),
      Call(14, "cps", MakeDay(2025, 0, 31), 86399, "POP", 0, "collections", "outbound", "B4", "P10", 120, 60, 0, 0) }

\* the window the metrics specification queries: January 2025
MWindow == getMonthRange(NewDate(2025, 0, 15))

MetricsInit ==
    /\ store \in {s \in SUBSET MetricsPool : Cardinality(s) <= MaxCalls}
    /\ MetricsIdle
    /\ DateIdle
    /\ FanIdle
    /\ RouteIdle
    /\ HookIdle
    /\ ScoreIdle
    /\ JobIdle

\* fetchClientData of the consolidated fetch, with the query succeeding
FetchClientData(c) ==
    /\ c \notin mDone
    /\ LET rows == QueryRows(store,
                       buildClientKPIQuery(c, formatDateTimeForQuery(MWindow.start),
                                           formatDateTimeEndForQuery(MWindow.end)))
       IN  /\ mRows' = mRows @@ (c :> rows)
           /\ mKpis' = mKpis @@ (c :> parseKPIResults(rows))
    /\ mDone' = mDone \cup {c}
    /\ UNCHANGED <<store, mSum, dateVars, fanVars, route, hookVars, scoreVars, jobVars>>

\* two parsed records summed and the derived fields recomputed, as for a total
ReducePair(x, y) ==
    /\ mDone = MClients /\ x # y /\ mSum.kind = "none"
    /\ LET summed == sumPeriodKPIs(mKpis[x], mKpis[y])
       IN  mSum' = [kind |-> "pair", args |-> <<x, y>>, summed |-> summed,
                    recalculated |-> recalculateDerivedMetrics(summed)]
    /\ UNCHANGED <<store, mRows, mKpis, mDone, dateVars, fanVars, route, hookVars, scoreVars, jobVars>>

\* three parsed records folded in the three orders a total can be built in
ReduceTriple(x, y, z) ==
    /\ mDone = MClients /\ x # y /\ y # z /\ x # z /\ mSum.kind = "none"
    /\ mSum' = [kind |-> "triple", args |-> <<x, y, z>>,
                ab_c |-> sumPeriodKPIs(sumPeriodKPIs(mKpis[x], mKpis[y]), mKpis[z]),
                a_bc |-> sumPeriodKPIs(mKpis[x], sumPeriodKPIs(mKpis[y], mKpis[z])),
                b_ac |-> sumPeriodKPIs(mKpis[y], sumPeriodKPIs(mKpis[x], mKpis[z]))]
    /\ UNCHANGED <<store, mRows, mKpis, mDone, dateVars, fanVars, route, hookVars, scoreVars, jobVars>>

MetricsNext ==
    \/ \E c \in MClients : FetchClientData(c)
    \/ \E x, y \in MClients : ReducePair(x, y)
    \/ \E x, y, z \in MClients : ReduceTriple(x, y, z)

SpecMetrics == MetricsInit /\ [][MetricsNext]_vars

-----------------------------------------------------------------------------
(* Specification of the consolidated fan-out                               *)
(* (fetchConsolidatedKPIsWithDateRange): the clients are listed, their     *)
(* KPI queries are issued batch by batch, the queries of a batch complete  *)
(* in any order, and the results of the batch are folded into the totals.  *)

\* the slice width of the fan-out loop is drawn from 1 .. MaxBatch and the
\* program's own width
MaxBatch == 2
CONSOLIDATED_BATCH_SIZE == 5
BatchSizes == (1 .. MaxBatch) \cup {CONSOLIDATED_BATCH_SIZE}

ALL_CLIENTS ==
    {"exeter", "aca", "cps", "ally", "autonation", "cac", "carmax", "creditone", "finbe",
     "ftb", "gm", "gofi", "maf", "prestige", "strike", "tenet", "tricolor", "uacc",
     "universal", "westlake", "yendo"}

\* the rows of system.tables the store returns; "archive" is a call_ table
\* of no client
TableClients == <<"aca", "cps", "archive", "westlake">>

Periods == <<"current", "comparison">>
Task(client, period) == <<client, period>>
TablesQuery == <<"system.tables", "">>

\* getAvailableClients keeps the rows that name a client of ALL_CLIENTS
KnownClients(rows) == LET known(c) == c \in ALL_CLIENTS IN SelectSeq(rows, known)

\* clients.filter(c => c !== 'westlake') when excludeWestlake is set
WithoutWestlake(clients, excludeWestlake) ==
    LET kept(c) == c # "westlake"
    IN  IF excludeWestlake THEN SelectSeq(clients, kept) ELSE clients

\* the query of one task: the client's KPI query over the task's period
TaskQuery(f, t) ==
    IF t[2] = "current"
    THEN buildClientKPIQuery(t[1], formatDateTimeForQuery(f.currentRange.start),
                             formatDateTimeEndForQuery(f.currentRange.end))
    ELSE buildClientKPIQuery(t[1], formatDateTimeForQuery(f.comparisonRange.start),
                             formatDateTimeEndForQuery(f.comparisonRange.end))

\* the store fails a query when it is down for it, and it rejects a date
\* literal that was formatted from an Invalid Date ('NaN-NaN-NaN 00:00:00')
QueryFails(t, q) == t \in unavailable \/ q.startDate.nan \/ q.endDate.nan

\* what the store holds for a task, whether or not the query gets through
StoredKpis(t) == parseKPIResults(QueryRows(store, TaskQuery(fan, t)))

\* a fetch that hands out the stored data even though its query failed
fetchClientData_errorAsData(t) == StoredKpis(t)

\* fetchClientData: the parsed rows, or the empty record when the query throws
fetchClientData(t) ==
    IF QueryFails(t, TaskQuery(fan, t)) THEN emptyPeriodKPIs ELSE StoredKpis(t)

\* batch.flatMap(client => [current fetch, comparison fetch]) of clients.slice(i, i + size)
BatchTasks(clients, i, size) ==
    [k \in 1 .. 2 * (Min(i + size, Len(clients)) - i) |->
        Task(clients[i + ((k + 1) \div 2)], Periods[((k - 1) % 2) + 1])]

Totals(current, comparison) == [current |-> current, comparison |-> comparison]

\* a fold that forgets the totals accumulated before the last result of a batch
FoldBatch_lastWins(totals, tasks, results) ==
    IF tasks = << >> THEN totals
    ELSE IF tasks[Len(tasks)][2] = "current"
         THEN Totals(results[tasks[Len(tasks)]], totals.comparison)
         ELSE Totals(totals.current, results[tasks[Len(tasks)]])

\* one iteration of the fold: the result of a task is added to the total of its period
Accumulate(totals, task, kpis) ==
    IF task[2] = "current"
    THEN Totals(sumPeriodKPIs(totals.current, kpis), totals.comparison)
    ELSE Totals(totals.current, sumPeriodKPIs(totals.comparison, kpis))

\* for (const {period, kpis} of batchResults): the results are folded in the
\* order of the tasks, not in the order of completion; each iteration's totals
\* are computed before the next iteration runs
RECURSIVE FoldBatch(_, _, _)
FoldBatch(totals, tasks, results) ==
    IF tasks = << >> THEN totals
    ELSE CHOOSE folded \in {FoldBatch(next, Tail(tasks), results) :
                               next \in {Accumulate(totals, Head(tasks), results[Head(tasks)])}} :
             TRUE

NewFan(currentRange, comparisonRange, comparisonType, excludeWestlake, batchSize) ==
    [pc |-> "start", currentRange |-> currentRange, comparisonRange |-> comparisonRange,
     comparisonType |-> comparisonType, excludeWestlake |-> excludeWestlake,
     batchSize |-> batchSize, clients |-> << >>, i |-> 0, inflight |-> {},
     batchResults |-> << >>, totals |-> Totals(emptyPeriodKPIs, emptyPeriodKPIs),
     outOfOrder |-> FALSE, issued |-> 0, result |-> [status |-> "pending"],
     closed |-> FALSE]

FanPool ==
    { Call(21, "aca", MDay, 100, "POP", 0, "collections", "outbound", "A1", "P1", 300, 100, 0, 0),
      Call(22, "aca", MDay - 31, 100, "NOA", 0, "collections", "outbound", "A1", "P1", 20, 0, 0, 0),
      Call(23, "cps", MDay, 100, "PHO", 0, "collections", "inbound", "B1", "P2", 240, 50, 50, 0),
      Call(24, "cps", MDay - 31, 100, "POP", 1, "collections", "outbound", "B1", "P2", 180, 75, 0, 0),
      Call(25, "westlake", MDay, 100, "XCSN", 0, "collections", "outbound", "W1", "P3", 120, 0, 0, 0),
      Call(26, "westlake", MDay - 31, 100, "TTB", 0, "welcome", "outbound", "W2", "P4", 90, 0, 0, 1),
      Call(27, "archive", MDay, 100, "POP", 0, "collections", "outbound", "X1", "P5", 60, 10, 0, 0) }

FanQueries == {TablesQuery} \cup {Task(c, p) : c \in {"aca", "cps", "westlake"},
                                               p \in {"current", "comparison"}}

FanInit ==
    /\ store = FanPool
    /\ unavailable \in SUBSET FanQueries
    /\ availableClientsCache \in {NoCache, [valid |-> TRUE, clients |-> KnownClients(TableClients)]}
    /\ \E excludeWestlake \in BOOLEAN, batchSize \in BatchSizes :
          fan = NewFan(MWindow, getPreviousMonthRange(NewDate(2025, 0, 15)), "mom",
                       excludeWestlake, batchSize)
    /\ DateIdle
    /\ MetricsIdle
    /\ RouteIdle
    /\ HookIdle
    /\ ScoreIdle
    /\ JobIdle

\* getAvailableClients with a cache entry younger than the TTL: no query
FanStartCached ==
    /\ fan.pc = "start"
    /\ availableClientsCache.valid
    /\ fan' = [fan EXCEPT !.pc = "loop",
                          !.clients = WithoutWestlake(availableClientsCache.clients,
                                                      fan.excludeWestlake)]
    /\ UNCHANGED <<store, unavailable, availableClientsCache, dateVars, metricVars, route, hookVars, scoreVars, jobVars>>

\* getAvailableClients without a valid cache entry: the system.tables query is issued
FanStartListing ==
    /\ fan.pc = "start"
    /\ ~availableClientsCache.valid
    /\ fan' = [fan EXCEPT !.pc = "listing", !.issued = @ + 1]
    /\ UNCHANGED <<store, unavailable, availableClientsCache, dateVars, metricVars, route, hookVars, scoreVars, jobVars>>

\* the system.tables query returns: the cache is filled and the loop begins
FanListed ==
    /\ fan.pc = "listing"
    /\ TablesQuery \notin unavailable
    /\ availableClientsCache' = [valid |-> TRUE, clients |-> KnownClients(TableClients)]
    /\ fan' = [fan EXCEPT !.pc = "loop",
                          !.clients = WithoutWestlake(KnownClients(TableClients),
                                                      fan.excludeWestlake)]
    /\ UNCHANGED <<store, unavailable, dateVars, metricVars, route, hookVars, scoreVars, jobVars>>

\* the system.tables query throws: finally closes the client, the error propagates
FanListFailed ==
    /\ fan.pc = "listing"
    /\ TablesQuery \in unavailable
    /\ fan' = [fan EXCEPT !.pc = "done", !.closed = TRUE,
                          !.result = [status |-> "error", message |-> "query failed"]]
    /\ UNCHANGED <<store, unavailable, availableClientsCache, dateVars, metricVars, route, hookVars, scoreVars, jobVars>>

\* the head of the loop: the queries of the next slice are all issued
FanDispatch ==
    /\ fan.pc = "loop"
    /\ fan.i < Len(fan.clients)
    /\ fan' = [fan EXCEPT !.pc = "await", !.batchResults = << >>,
                          !.issued = @ + Len(BatchTasks(fan.clients, fan.i, fan.batchSize)),
                          !.inflight = {BatchTasks(fan.clients, fan.i, fan.batchSize)[k] :
                                          k \in DOMAIN BatchTasks(fan.clients, fan.i, fan.batchSize)}]
    /\ UNCHANGED <<store, unavailable, availableClientsCache, dateVars, metricVars, route, hookVars, scoreVars, jobVars>>

\* the task at position k of the batch was settled while an earlier one is in flight
Overtakes(t) ==
    \E j, k \in DOMAIN BatchTasks(fan.clients, fan.i, fan.batchSize) :
        /\ j < k
        /\ BatchTasks(fan.clients, fan.i, fan.batchSize)[k] = t
        /\ BatchTasks(fan.clients, fan.i, fan.batchSize)[j] \in fan.inflight

\* one query of the batch completes, in any order
FanSettle(t) ==
    /\ fan.pc = "await"
    /\ t \in fan.inflight
    /\ fan' = [fan EXCEPT !.inflight = @ \ {t},
                          !.batchResults = @ @@ (t :> fetchClientData(t)),
                          !.outOfOrder = @ \/ Overtakes(t)]
    /\ UNCHANGED <<store, unavailable, availableClientsCache, dateVars, metricVars, route, hookVars, scoreVars, jobVars>>

\* Promise.all resolves: the results of the batch are folded, the loop advances
FanFold ==
    /\ fan.pc = "await"
    /\ fan.inflight = {}
    /\ fan' = [fan EXCEPT !.pc = "loop", !.i = @ + fan.batchSize, !.batchResults = << >>,
                          !.totals = FoldBatch(fan.totals,
                                               BatchTasks(fan.clients, fan.i, fan.batchSize),
                                               fan.batchResults)]
    /\ UNCHANGED <<store, unavailable, availableClientsCache, dateVars, metricVars, route, hookVars, scoreVars, jobVars>>

\* after the loop: the derived fields are recomputed and the view data returned
FanReturn ==
    /\ fan.pc = "loop"
    /\ fan.i >= Len(fan.clients)
    /\ fan' = [fan EXCEPT !.pc = "done", !.closed = TRUE,
                  !.result = [status |-> "ok",
                              currentPeriod |-> recalculateDerivedMetrics(fan.totals.current),
                              previousPeriod |-> recalculateDerivedMetrics(fan.totals.comparison),
                              currentPeriodLabel |-> fan.currentRange.label,
                              previousPeriodLabel |-> fan.comparisonRange.label,
                              comparisonType |-> fan.comparisonType,
                              comparisonContext |-> "vs " \o fan.comparisonRange.label]]
    /\ UNCHANGED <<store, unavailable, availableClientsCache, dateVars, metricVars, route, hookVars, scoreVars, jobVars>>

FanNext ==
    \/ FanStartCached
    \/ FanStartListing
    \/ FanListed
    \/ FanListFailed
    \/ FanDispatch
    \/ \E t \in FanQueries : FanSettle(t)
    \/ FanFold
    \/ FanReturn

SpecFan == FanInit /\ [][FanNext]_vars

-----------------------------------------------------------------------------
(* Specification of GET /api/kpis with the period parameters: a request    *)
(* carrying periodType and referenceDate is received, the period ranges    *)
(* are computed, and the per-client fetch or the consolidated fan-out      *)
(* runs against the store; the response is what the route sends back.      *)

\* reference dates are drawn from MaxRefDays consecutive days from Sun Jan 12 2025
MaxRefDays == 7

\* new Date(referenceDateStr) of a well-formed date string; a malformed
\* string gives the Invalid Date
RouteDates ==
    {[nan |-> FALSE, day |-> MakeDay(2025, 0, 12) + k, ms |-> StartOfDay] :
        k \in 0 .. (MaxRefDays - 1)}

Views == {"per-client", "consolidated"}

RoutePool ==
    { Call(31, "aca", MDay - 2, 100, "POP", 0, "collections", "outbound", "A1", "P1", 300, 100, 0, 0),
      Call(32, "aca", MDay - 8, 100, "PHO", 0, "collections", "outbound", "A2", "P2", 240, 50, 50, 0),
      Call(33, "aca", MDay - 15, 100, "NOA", 0, "collections", "outbound", "A1", "P1", 20, 0, 0, 0),
      Call(34, "aca", MDay - 22, 100, "POP", 0, "collections", "inbound", "A3", "P3", 180, 75, 0, 0),
      Call(35, "aca", MDay - 29, 100, "XCSV", 0, "collections", "outbound", "A1", "P1", 150, 0, 0, 0),
      Call(36, "aca", MDay - 40, 100, "POP", 0, "collections", "outbound", "A4", "P4", 60, 10, 0, 0),
      Call(37, "cps", MDay - 1, 100, "PHO", 0, "collections", "inbound", "B1", "P5", 200, 40, 40, 0),
      Call(38, "cps", MDay - 9, 100, "POP", 0, "collections", "outbound", "B2", "P6", 100, 30, 0, 0),
      Call(39, "westlake", MDay - 3, 100, "TTB", 0, "welcome", "outbound", "W1", "P7", 90, 0, 0, 1),
      Call(40, "westlake", MDay - 10, 100, "POP", 0, "collections", "outbound", "W2", "P8", 80, 20, 0, 0) }

NewRequest(view, client, periodType, referenceDate, excludeWestlake) ==
    [pc |-> "received", view |-> view, client |-> client, periodType |-> periodType,
     referenceDate |-> referenceDate, excludeWestlake |-> excludeWestlake,
     config |-> << >>, issued |-> 0, response |-> [status |-> 0]]

RouteInit ==
    /\ store = RoutePool
    /\ unavailable \in {{}, {TablesQuery}, {Task("aca", "comparison")}}
    /\ availableClientsCache \in {NoCache, [valid |-> TRUE, clients |-> KnownClients(TableClients)]}
    /\ fan = [pc |-> "idle"]
    /\ \E view \in Views, client \in {"aca", "cps"},
          periodType \in ComparisonTypes \cup {"bogus"},
          referenceDate \in RouteDates \cup {NaNDate}, excludeWestlake \in BOOLEAN :
          route = NewRequest(view, client, periodType, referenceDate, excludeWestlake)
    /\ DateIdle
    /\ MetricsIdle
    /\ HookIdle
    /\ ScoreIdle
    /\ JobIdle

Success(data) == [status |-> 200, success |-> TRUE, data |-> data]
Failure(message) == [status |-> 500, success |-> FALSE, error |-> message]

\* view=per-client: fetchPerClientKPIsWithDateRange issues its two queries
RouteGETPerClient ==
    /\ route.pc = "received"
    /\ route.view = "per-client"
    /\ route' = [route EXCEPT !.pc = "perClient", !.issued = 2,
                              !.config = getPeriodConfig(route.periodType, route.referenceDate)]
    /\ UNCHANGED <<store, fanVars, dateVars, metricVars, hookVars, scoreVars, jobVars>>

\* any other view: fetchConsolidatedKPIsWithDateRange is started
RouteGETConsolidated ==
    LET Start(cfg) ==
            /\ route' = [route EXCEPT !.pc = "consolidated", !.config = cfg]
            /\ fan' = NewFan(cfg.currentRange, cfg.comparisonRange, route.periodType,
                             route.excludeWestlake, CONSOLIDATED_BATCH_SIZE)
    IN  /\ route.pc = "received"
        /\ route.view # "per-client"
        /\ Start(getPeriodConfig(route.periodType, route.referenceDate))
        /\ UNCHANGED <<store, unavailable, availableClientsCache, dateVars, metricVars, hookVars, scoreVars, jobVars>>

\* one of the two queries of the per-client fetch throws
PerClientFails ==
    \E p \in {"current", "comparison"} :
        QueryFails(Task(route.client, p), TaskQuery(route.config, Task(route.client, p)))

PerClientKpis(p) ==
    parseKPIResults(QueryRows(store, TaskQuery(route.config, Task(route.client, p))))

\* both queries return: the view data is built and sent with success: true
RoutePerClientOk ==
    /\ route.pc = "perClient"
    /\ ~PerClientFails
    /\ route' = [route EXCEPT !.pc = "responded",
                   !.response = Success(
                       [client |-> route.client,
                        currentPeriod |-> PerClientKpis("current"),
                        previousPeriod |-> PerClientKpis("comparison"),
                        currentPeriodLabel |-> route.config.currentRange.label,
                        previousPeriodLabel |-> route.config.comparisonRange.label,
                        comparisonType |-> route.periodType,
                        comparisonContext |-> "vs " \o route.config.comparisonRange.label])]
    /\ UNCHANGED <<store, fanVars, dateVars, metricVars, hookVars, scoreVars, jobVars>>

\* Promise.all rejects: the route's catch answers 500 with the error message
RoutePerClientError ==
    /\ route.pc = "perClient"
    /\ PerClientFails
    /\ route' = [route EXCEPT !.pc = "responded", !.response = Failure("query failed")]
    /\ UNCHANGED <<store, fanVars, dateVars, metricVars, hookVars, scoreVars, jobVars>>

\* the consolidated fetch has returned or thrown
RouteConsolidatedDone ==
    /\ route.pc = "consolidated"
    /\ fan.pc = "done"
    /\ route' = [route EXCEPT !.pc = "responded",
                   !.response = IF fan.result.status = "ok"
                                THEN Success([currentPeriod |-> fan.result.currentPeriod,
                                              previousPeriod |-> fan.result.previousPeriod,
                                              currentPeriodLabel |-> fan.result.currentPeriodLabel,
                                              previousPeriodLabel |-> fan.result.previousPeriodLabel,
                                              comparisonType |-> fan.result.comparisonType,
                                              comparisonContext |-> fan.result.comparisonContext])
                                ELSE Failure(fan.result.message)]
    /\ UNCHANGED <<store, fanVars, dateVars, metricVars, hookVars, scoreVars, jobVars>>

RouteNext ==
    \/ RouteGETPerClient
    \/ RouteGETConsolidated
    \/ RoutePerClientOk
    \/ RoutePerClientError
    \/ RouteConsolidatedDone
    \/ FanNext

SpecRoute == RouteInit /\ [][RouteNext]_vars

-----------------------------------------------------------------------------
(* The weekly average of the week-to-date comparison: fetchWeeklyAverageKPIs *)
(* and fetchConsolidatedWeeklyAverageKPIs, as functions of the store when   *)
(* every query succeeds.                                                    *)

DivideCollections(m, divisor) ==
    [accounts |-> RDiv(m.accounts, R(divisor)),
     calls |-> RDiv(m.calls, R(divisor)),
     callsPerAccount |-> R(0),
     connects |-> RDiv(m.connects, R(divisor)),
     connectRate |-> R(0),
     rpcs |-> RDiv(m.rpcs, R(divisor)),
     rpcRate |-> R(0),
     promises |-> RDiv(m.promises, R(divisor)),
     promisesPerRpc |-> R(0),
     cashPayments |-> RDiv(m.cashPayments, R(divisor)),
     cashPerRpc |-> R(0),
     cashPerPromises |-> R(0),
     transfers |-> RDiv(m.transfers, R(divisor)),
     transfersPerRpc |-> R(0),
     timeOnCallHours |-> RDiv(m.timeOnCallHours, R(divisor)),
     avgTimePerCallMin |-> R(0),
     dollarPromised |-> RDiv(m.dollarPromised, R(divisor)),
     dollarCollected |-> RDiv(m.dollarCollected, R(divisor)),
     avgPaymentAmount |-> R(0),
     dollarPerRpc |-> R(0)]

DivideWelcome(m, divisor) ==
    [accounts |-> RDiv(m.accounts, R(divisor)),
     calls |-> RDiv(m.calls, R(divisor)),
     callsPerAccount |-> R(0),
     connects |-> RDiv(m.connects, R(divisor)),
     connectRate |-> R(0),
     rpcs |-> RDiv(m.rpcs, R(divisor)),
     rpcRate |-> R(0),
     eligible |-> RDiv(m.eligible, R(divisor)),
     eligiblePerRpc |-> R(0),
     completed |-> RDiv(m.completed, R(divisor)),
     completedPerEligible |-> R(0),
     completedPerRpc |-> R(0),
     incomplete |-> RDiv(m.incomplete, R(divisor))]

\* total = { collections: {accounts: total.collections.accounts / divisor, ...}, ... }
DivideKPIs(total, divisor) ==
    [collections |-> DivideCollections(total.collections, divisor),
     inbound |-> DivideCollections(total.inbound, divisor),
     welcome |-> DivideWelcome(total.welcome, divisor),
     verification |-> DivideWelcome(total.verification, divisor)]

\* getWeekRange of the date i weeks before the reference date
WeekBefore(referenceDate, i) ==
    getWeekRange(SetDate(referenceDate, GetDate(referenceDate) - (i * 7)))

\* the parsed rows of the client's query over the week i weeks before the reference date
WeekKpis(client, referenceDate, i) ==
    parseKPIResults(QueryRows(store,
        buildClientKPIQuery(client,
                            formatDateTimeForQuery(WeekBefore(referenceDate, i).start),
                            formatDateTimeEndForQuery(WeekBefore(referenceDate, i).end))))

\* weeklyKPIs[0 .. i-1] summed from the empty record
RECURSIVE SumWeeks(_, _, _)
SumWeeks(client, referenceDate, i) ==
    IF i = 0 THEN emptyPeriodKPIs
    ELSE sumPeriodKPIs(SumWeeks(client, referenceDate, i - 1),
                       WeekKpis(client, referenceDate, i))

fetchWeeklyAverageKPIs(client, referenceDate, weeks) ==
    IF weeks = 0 THEN emptyPeriodKPIs
    ELSE recalculateDerivedMetrics(DivideKPIs(SumWeeks(client, referenceDate, weeks), weeks))

\* weekTotal of week i: the clients[1 .. k] summed from the empty record
RECURSIVE WeekTotal(_, _, _, _)
WeekTotal(clients, k, referenceDate, i) ==
    IF k = 0 THEN emptyPeriodKPIs
    ELSE sumPeriodKPIs(WeekTotal(clients, k - 1, referenceDate, i),
                       WeekKpis(clients[k], referenceDate, i))

\* weeklyTotals[0 .. i-1], each with its derived fields recomputed, summed
RECURSIVE SumWeekTotals(_, _, _)
SumWeekTotals(clients, referenceDate, i) ==
    IF i = 0 THEN emptyPeriodKPIs
    ELSE sumPeriodKPIs(SumWeekTotals(clients, referenceDate, i - 1),
                       recalculateDerivedMetrics(
                           WeekTotal(clients, Len(clients), referenceDate, i)))

fetchConsolidatedWeeklyAverageKPIs(referenceDate, weeks, excludeWestlake) ==
    IF weeks = 0 THEN emptyPeriodKPIs
    ELSE recalculateDerivedMetrics(
             DivideKPIs(SumWeekTotals(WithoutWestlake(KnownClients(TableClients),
                                                      excludeWestlake),
                                      referenceDate, weeks),
                        weeks))

-----------------------------------------------------------------------------
(* C5, C6, C9, C10 *)

CollectionsCategories == {"collections", "inbound"}
AllCategories == {"collections", "inbound", "welcome", "verification"}

AddRawCollections(x, y) ==
    [accounts |-> RAdd(x.accounts, y.accounts), calls |-> RAdd(x.calls, y.calls),
     connects |-> RAdd(x.connects, y.connects), rpcs |-> RAdd(x.rpcs, y.rpcs),
     promises |-> RAdd(x.promises, y.promises),
     cashPayments |-> RAdd(x.cashPayments, y.cashPayments),
     transfers |-> RAdd(x.transfers, y.transfers),
     durationMinutes |-> RAdd(x.durationMinutes, y.durationMinutes),
     dollarPromised |-> RAdd(x.dollarPromised, y.dollarPromised),
     dollarCollected |-> RAdd(x.dollarCollected, y.dollarCollected)]

AddRawWelcome(x, y) ==
    [accounts |-> RAdd(x.accounts, y.accounts), calls |-> RAdd(x.calls, y.calls),
     connects |-> RAdd(x.connects, y.connects), rpcs |-> RAdd(x.rpcs, y.rpcs),
     eligible |-> RAdd(x.eligible, y.eligible), completed |-> RAdd(x.completed, y.completed)]

\* rate is num/den on the 0-100 scale, and 0 when den is 0
IsPercentOf(rate, num, den) ==
    IF den = R(0) THEN rate = R(0) ELSE RMul(rate, den) = RMul(R(100), num)

InPercentRange(x) == RLe(R(0), x) /\ RLe(x, R(100))

\* the records of the collections shape the specification holds
MetricsRecords ==
    {mKpis[c][cat] : c \in mDone, cat \in CollectionsCategories}
    \cup (IF mSum.kind = "pair"
          THEN {mSum.recalculated[cat] : cat \in CollectionsCategories} ELSE {})

Funnel(m) == RLe(m.rpcs, m.connects) /\ RLe(m.connects, m.calls)

\* C10: every call classified as RPC is classified as connect, so in every row
\* per (model, direction) and in every sum of rows rpcs <= connects <= calls.
C10_RpcsWithinConnectsWithinCalls ==
    /\ \A c \in store : isRPC(c) => isConnect(c)
    /\ \A c \in mDone : \A r \in mRows[c] : r.rpcs <= r.connects /\ r.connects <= r.calls
    /\ \A c \in mDone : \A cat \in AllCategories : Funnel(mKpis[c][cat])
    /\ mSum.kind = "pair" =>
          \A cat \in AllCategories : Funnel(mSum.summed[cat]) /\ Funnel(mSum.recalculated[cat])
    /\ mSum.kind = "triple" => \A cat \in AllCategories : Funnel(mSum.ab_c[cat])

\* a row with a proper funnel: some calls did not connect, some connects were no RPC
C10_RowWithProperFunnel ==
    \E c \in mDone : \E r \in mRows[c] : 0 < r.rpcs /\ r.rpcs < r.connects /\ r.connects < r.calls

-----------------------------------------------------------------------------
(* C8 *)

\* C8: getSamePeriodLastMonth returns an end date in the calendar month
\* immediately before the month of the input end, on day
\* min(input end day, number of days of that previous month).
C8_EndClampedIntoPreviousMonth ==
    dOut.fn = "getSamePeriodLastMonth" =>
        LET e == dOut.arg.end
            r == dOut.result.end
            prev == GetFullYear(e) * 12 + GetMonth(e) - 1
        IN  /\ GetFullYear(r) * 12 + GetMonth(r) = prev
            /\ GetDate(r) = Min(GetDate(e), DaysInMonth(prev \div 12, prev % 12))

\* the cases of C8 the tests pin down: Jan 31 2025 -> Dec 31 2024 (holds)
C8_Jan31Case ==
    /\ dOut.fn = "getSamePeriodLastMonth"
    /\ dOut.arg.end.day = MakeDay(2025, 0, 31)
    /\ dOut.result.end.day = MakeDay(2024, 11, 31)

-----------------------------------------------------------------------------
(* C1, C2, C4 *)

\* the fetch tasks of the run, and those of them whose query throws
RunTasks == {Task(fan.clients[k], p) : k \in DOMAIN fan.clients, p \in {"current", "comparison"}}
FailedTasks == {t \in RunTasks : QueryFails(t, TaskQuery(fan, t))}

\* the field-wise sum of what the store holds for the tasks of S
RECURSIVE SumStored(_)
SumStored(S) ==
    IF S = {} THEN emptyPeriodKPIs
    ELSE sumPeriodKPIs(StoredKpis(CHOOSE t \in S : TRUE),
                       SumStored(S \ {CHOOSE t \in S : TRUE}))

SucceededIn(period) == {t \in RunTasks \ FailedTasks : t[2] = period}

\* a run in which at least one task fails and at least one succeeds
SomeFailedSomeSucceeded == FailedTasks # {} /\ FailedTasks # RunTasks

\* the guards of the steps of a run that has listed its clients: a step is possible
CanStep ==
    \/ fan.pc = "loop"
    \/ fan.pc = "await" /\ (fan.inflight = {} \/ fan.inflight \cap FanQueries # {})

\* an upper bound on the steps the run still has to take
StepsLeft(f) ==
    CASE f.pc = "done" -> 0
      [] f.pc = "loop" -> 1 + 4 * (Len(f.clients) - Min(f.i, Len(f.clients)))
      [] f.pc = "await" ->
            2 + 4 * (Len(f.clients) - Min(f.i + f.batchSize, Len(f.clients)))
              + Cardinality(f.inflight)
      [] OTHER -> 3 + 4 * Len(TableClients)

C2_AllTasksFailedIsError ==
    (fan.pc = "done" /\ RunTasks # {} /\ FailedTasks = RunTasks) =>
        fan.result.status = "error"

\* the results of the tasks of one period summed from the last client to the
\* first, in one pass over all clients
RECURSIVE SumBackwards(_, _)
SumBackwards(k, period) ==
    IF k = 0 THEN emptyPeriodKPIs
    ELSE sumPeriodKPIs(fetchClientData(Task(fan.clients[k], period)),
                       SumBackwards(k - 1, period))

-----------------------------------------------------------------------------
(* C3, C7 *)

\* the request carries a malformed reference date or an unknown comparison type
InvalidRequest ==
    /\ route.pc # "idle"
    /\ (route.referenceDate.nan \/ route.periodType \notin ComparisonTypes)

\* the queries the request has issued to the store so far
QueriesIssued == route.issued + (IF fan.pc = "idle" THEN 0 ELSE fan.issued)

\* C3: a malformed reference date or an unknown comparison type is answered
\* with an error; no fetch is issued for such a request.
C3_InvalidInputFailsFastWithoutFetch ==
    InvalidRequest =>
        /\ QueriesIssued = 0
        /\ route.pc = "responded" => ~route.response.success

\* C7: in week-to-date mode the comparison metrics of the response are the
\* average of the 4 preceding weeks (counters divided by 4, rates recomputed
\* from the averaged counters), not the raw sum over the 28-day range.
C7_WtdComparisonIsFourWeekAverage ==
    (/\ route.pc = "responded"
     /\ route.periodType = "wtd"
     /\ unavailable = {}
     /\ route.response.success) =>
        route.response.data.previousPeriod =
            IF route.view = "per-client"
            THEN fetchWeeklyAverageKPIs(route.client, route.referenceDate, 4)
            ELSE fetchConsolidatedWeeklyAverageKPIs(route.referenceDate, 4,
                                                    route.excludeWestlake)

-----------------------------------------------------------------------------
(* Claim C11 *)

\* C11: at every moment of a consolidated run with the program's slice width
\* the number of store fetches in flight is at most the concurrency ceiling
\* of 5.
C11_InflightWithinCeiling ==
    fan.batchSize = CONSOLIDATED_BATCH_SIZE =>
        Cardinality(fan.inflight) <= CONSOLIDATED_BATCH_SIZE

-----------------------------------------------------------------------------
(* Specification of the data hook usePerClientDataWithPeriod and of         *)
(* fetchWithRetry beneath it: the component mounts, its parameters change,  *)
(* it unmounts; every run of the effect aborts the previous controller and  *)
(* starts a fetchData call, whose fetchWithRetry loop is answered by the    *)
(* server attempt by attempt; when the loop settles, the rest of fetchData  *)
(* applies the outcome with the state setters.                              *)

\* the effect runs at most MaxRenders times
MaxRenders == 3
\* the parameter settings (client, periodType, referenceDate), by their URL
MaxUrls == 2
Urls == 1 .. MaxUrls
\* retries: 2 in the options the hook passes to fetchWithRetry
HOOK_RETRIES == 2

Null == [kind |-> "null"]
ResponseData(url) == [kind |-> "data", url |-> url]
FetchError(message, status, isTimeout, isNetworkError) ==
    [name |-> "FetchError", message |-> message, status |-> status,
     isTimeout |-> isTimeout, isNetworkError |-> isNetworkError]
PlainError(name, message) ==
    [name |-> name, message |-> message, status |-> 0,
     isTimeout |-> FALSE, isNetworkError |-> FALSE]

\* getErrorMessage
getErrorMessage(error) ==
    IF error.name = "FetchError"
    THEN IF error.isTimeout THEN "Request timed out. Please try again."
         ELSE IF error.isNetworkError THEN "Network error. Please check your connection."
         ELSE IF error.status = 404 THEN "Data not found."
         ELSE IF error.status >= 500 THEN "Server error. Please try again later."
         ELSE error.message
    ELSE error.message

\* what the server or the network does with one attempt
Outcomes == {"ok", "notFound", "serverError", "networkError", "badBody"}

\* a fetchData call at the point where fetchWithRetry has issued its first
\* attempt; signal is the hook's controller, handed over in the options
NewFetch(url, signal) ==
    [url |-> url, signal |-> signal, attempt |-> 0, pc |-> "fetching",
     timedOut |-> FALSE, settled |-> Null]

\* fetchWithRetry when the cache holds the URL: it returns the cached data
\* without a fetch
CachedFetch(url, signal) ==
    [url |-> url, signal |-> signal, attempt |-> 0, pc |-> "resolved",
     timedOut |-> FALSE, settled |-> ResponseData(url)]

\* fetchWithTimeout: fetch(url, {...fetchOptions, signal: controller.signal});
\* the signal of the fetch is the one of the timeout controller, the signal
\* in the options is overwritten
FetchSignalAborted(req) == req.timedOut

\* the catch of the retry loop for an error that is neither a FetchError nor
\* an abort: retry while attempts are left, otherwise the loop ends and
\* lastError is thrown
RetryOrThrow(req, final) ==
    IF req.attempt < HOOK_RETRIES
    THEN [req EXCEPT !.pc = "sleeping"]
    ELSE [req EXCEPT !.pc = "rejected", !.settled = final]

\* one attempt of the retry loop is answered
AttemptAnswered(req, outcome) ==
    CASE outcome = "ok" ->
            [req EXCEPT !.pc = "resolved", !.settled = ResponseData(req.url)]
      [] outcome = "notFound" ->
            [req EXCEPT !.pc = "rejected",
                        !.settled = FetchError("Request failed with status 404", 404,
                                               FALSE, FALSE)]
      [] outcome = "serverError" ->
            RetryOrThrow(req, FetchError("Request failed with status 500", 500,
                                         FALSE, FALSE))
      [] outcome = "networkError" ->
            RetryOrThrow(req, FetchError("Network error - please check your connection",
                                         0, FALSE, TRUE))
      [] OTHER ->
            RetryOrThrow(req, PlainError("SyntaxError", "Unexpected token"))

HookInit ==
    /\ \E url \in Urls :
          hook = [pc |-> "rendered", url |-> url, isLoading |-> TRUE, data |-> Null,
                  error |-> Null, controller |-> 0, aborted |-> {}]
    /\ requests = << >>
    /\ apiCache \in SUBSET Urls
    /\ store = {}
    /\ DateIdle
    /\ MetricsIdle
    /\ FanIdle
    /\ RouteIdle
    /\ ScoreIdle
    /\ JobIdle

\* the body of the effect: the previous controller is aborted, a new one is
\* made, setIsLoading(true), setError(null), and fetchData runs up to its
\* first await
RunEffect(url) ==
    /\ hook' = [hook EXCEPT !.pc = "mounted", !.url = url, !.isLoading = TRUE,
                            !.error = Null, !.controller = Len(requests) + 1,
                            !.aborted = IF hook.controller = 0 THEN @
                                        ELSE @ \cup {hook.controller}]
    /\ requests' = Append(requests,
                          IF url \in apiCache
                          THEN CachedFetch(url, Len(requests) + 1)
                          ELSE NewFetch(url, Len(requests) + 1))
    /\ UNCHANGED apiCache

\* no fetchData call has a continuation waiting in the microtask queue: the
\* queue is drained before the next render or event is handled
MicrotasksDrained ==
    \A r \in DOMAIN requests : requests[r].pc \notin {"resolved", "rejected"}

\* the component mounts: the effect runs for the first time
HookMount ==
    /\ hook.pc = "rendered"
    /\ RunEffect(hook.url)
    /\ UNCHANGED <<store, dateVars, metricVars, fanVars, route, scoreVars, jobVars>>

\* a parameter changes: the cleanup of the previous effect aborts its
\* controller and the effect runs again
HookParamsChange(url) ==
    /\ hook.pc = "mounted"
    /\ MicrotasksDrained
    /\ url # hook.url
    /\ Len(requests) < MaxRenders
    /\ RunEffect(url)
    /\ UNCHANGED <<store, dateVars, metricVars, fanVars, route, scoreVars, jobVars>>

\* the component unmounts: the cleanup aborts the controller
HookUnmount ==
    /\ hook.pc = "mounted"
    /\ MicrotasksDrained
    /\ hook' = [hook EXCEPT !.pc = "unmounted", !.aborted = @ \cup {hook.controller}]
    /\ UNCHANGED <<requests, apiCache, store, dateVars, metricVars, fanVars, route,
                   scoreVars, jobVars>>

\* the server or the network answers the attempt in flight; a successful
\* response is stored in the cache
FetchAnswered(r, outcome) ==
    /\ requests[r].pc = "fetching"
    /\ ~FetchSignalAborted(requests[r])
    /\ requests' = [requests EXCEPT ![r] = AttemptAnswered(@, outcome)]
    /\ apiCache' = IF outcome = "ok" THEN apiCache \cup {requests[r].url} ELSE apiCache
    /\ UNCHANGED <<hook, store, dateVars, metricVars, fanVars, route, scoreVars, jobVars>>

\* the timer of fetchWithTimeout fires: its controller aborts the fetch
FetchTimerFires(r) ==
    /\ requests[r].pc = "fetching"
    /\ ~requests[r].timedOut
    /\ requests' = [requests EXCEPT ![r].timedOut = TRUE]
    /\ UNCHANGED <<hook, apiCache, store, dateVars, metricVars, fanVars, route, scoreVars, jobVars>>

\* the aborted fetch rejects with an AbortError, which the retry loop
\* rethrows as FetchError('Request timed out')
FetchAborted(r) ==
    /\ requests[r].pc = "fetching"
    /\ FetchSignalAborted(requests[r])
    /\ requests' = [requests EXCEPT ![r].pc = "rejected",
                       ![r].settled = FetchError("Request timed out", 0, TRUE, FALSE)]
    /\ UNCHANGED <<hook, apiCache, store, dateVars, metricVars, fanVars, route, scoreVars, jobVars>>

\* the backoff sleep ends: the next attempt is issued with a new timer
RetrySleepDone(r) ==
    /\ requests[r].pc = "sleeping"
    /\ requests' = [requests EXCEPT ![r].pc = "fetching", ![r].attempt = @ + 1,
                                    ![r].timedOut = FALSE]
    /\ UNCHANGED <<hook, apiCache, store, dateVars, metricVars, fanVars, route, scoreVars, jobVars>>

\* a cache entry outlives its TTL
CacheExpires(url) ==
    /\ url \in apiCache
    /\ hook.pc # "rendered"
    /\ apiCache' = apiCache \ {url}
    /\ UNCHANGED <<hook, requests, store, dateVars, metricVars, fanVars, route, scoreVars, jobVars>>

\* the state a setter call leaves: the setters of an unmounted component do nothing
SetState(h, data, error) ==
    IF h.pc = "unmounted" THEN h
    ELSE [h EXCEPT !.data = data, !.error = error, !.isLoading = FALSE]

\* the rest of fetchData after the await: setData on success; in the catch,
\* return on an error named AbortError, otherwise setError and setData(null);
\* setIsLoading(false) in the finally
FetchDataContinues(r) ==
    /\ requests[r].pc \in {"resolved", "rejected"}
    /\ hook' = IF requests[r].pc = "resolved"
               THEN SetState(hook, requests[r].settled, hook.error)
               ELSE IF requests[r].settled.name = "AbortError"
                    THEN SetState(hook, hook.data, hook.error)
                    ELSE SetState(hook, Null,
                                  [kind |-> "message",
                                   text |-> getErrorMessage(requests[r].settled)])
    /\ requests' = [requests EXCEPT ![r].pc = "done"]
    /\ UNCHANGED <<apiCache, store, dateVars, metricVars, fanVars, route, scoreVars, jobVars>>

HookNext ==
    \/ HookMount
    \/ \E url \in Urls : HookParamsChange(url)
    \/ HookUnmount
    \/ \E r \in DOMAIN requests, outcome \in Outcomes : FetchAnswered(r, outcome)
    \/ \E r \in DOMAIN requests : FetchTimerFires(r)
    \/ \E r \in DOMAIN requests : FetchAborted(r)
    \/ \E r \in DOMAIN requests : RetrySleepDone(r)
    \/ \E url \in Urls : CacheExpires(url)
    \/ \E r \in DOMAIN requests : FetchDataContinues(r)

SpecHook == HookInit /\ [][HookNext]_vars

-----------------------------------------------------------------------------
(* Claim C12 *)

\* the request was cancelled: its controller was aborted by a later run of
\* the effect or by the unmount
Cancelled(r) == requests[r].signal \in hook.aborted

\* C12: when the rest of a cancelled request's fetchData runs, the visible
\* state (data, error, isLoading) is left as it was, and once loading has
\* ended the data shown is the data of the hook's current parameters.
C12_CancelledResultNeverApplied ==
    /\ [](hook.pc = "mounted" /\ ~hook.isLoading /\ hook.data # Null =>
            hook.data.url = hook.url)
    /\ [][\A r \in DOMAIN requests :
            (requests[r].pc # "done" /\ requests'[r].pc = "done" /\ Cancelled(r)) =>
                /\ hook'.data = hook.data
                /\ hook'.error = hook.error
                /\ hook'.isLoading = hook.isLoading]_vars

-----------------------------------------------------------------------------
(* Claim C13 *)

\* the window query of the per-client request fails
WindowFails(p) ==
    QueryFails(Task(route.client, p), TaskQuery(route.config, Task(route.client, p)))

\* C13: when exactly one of the two window queries of a single-client period
\* comparison fails, the response is a success that carries the metrics of
\* the window that was fetched and all-zero metrics for the failed window.
C13_OneWindowFailureStillSucceeds ==
    (/\ route.pc = "responded"
     /\ route.view = "per-client"
     /\ WindowFails("current") # WindowFails("comparison")) =>
        /\ route.response.success
        /\ route.response.data.currentPeriod =
              IF WindowFails("current") THEN emptyPeriodKPIs ELSE PerClientKpis("current")
        /\ route.response.data.previousPeriod =
              IF WindowFails("comparison") THEN emptyPeriodKPIs
              ELSE PerClientKpis("comparison")

-----------------------------------------------------------------------------
(* Claims C14, C15 *)

\* C14: for every valid reference date, the comparison range that
\* getPeriodConfig returns in month-over-month and week-over-week mode ends
\* strictly before the current range starts.
C14_ComparisonEndsBeforeCurrentStarts ==
    (/\ dOut.fn = "getPeriodConfig"
     /\ dOut.type \in {"mom", "wow"}
     /\ ~dIn.nan) =>
        /\ ~dOut.result.end.nan
        /\ ~dOut.arg.start.nan
        /\ ~DateLE(dOut.arg.start, dOut.result.end)

\* a week-over-week configuration whose previous week begins in the year
\* before the current week's Sunday, computed for a time of day other than midnight
C14_PreviousWeekAcrossYearEnd ==
    /\ dOut.fn = "getPeriodConfig"
    /\ dOut.type = "wow"
    /\ ~dIn.nan
    /\ dIn.ms # StartOfDay
    /\ GetFullYear(dOut.result.start) < GetFullYear(dOut.arg.start)

\* C15: every range a DateRangeCalculator function returns for a valid date,
\* or for a range of valid dates with start <= end, has start <= end.
C15_EveryRangeStartsBeforeItEnds ==
    (/\ dOut.fn \notin {"none", "getPeriodConfig"}
     /\ ~dIn.nan
     /\ (dOut.fn = "getSamePeriodLastMonth" => DateLE(dOut.arg.start, dOut.arg.end))) =>
        /\ ~dOut.result.start.nan
        /\ ~dOut.result.end.nan
        /\ DateLE(dOut.result.start, dOut.result.end)

-----------------------------------------------------------------------------
(* Claim C16 *)

IsFiniteNumber(x) == x[2] > 0

WelcomeRecords ==
    {mKpis[c][cat] : c \in mDone, cat \in {"welcome", "verification"}}
    \cup (IF mSum.kind = "pair"
          THEN {mSum.recalculated[cat] : cat \in {"welcome", "verification"}} ELSE {})

\* the ratio is 0 when its denominator is 0
ZeroWhenNoDenominator(ratio, den) == den = R(0) => ratio = R(0)

\* C16: every field of every derived record, parsed from the rows of a query
\* or recomputed for a total, is a finite number, and every ratio whose
\* denominator is 0 is exactly 0.
C16_DerivedFieldsFiniteAndZeroOnZeroDenominator ==
    /\ \A m \in MetricsRecords :
          /\ \A f \in DOMAIN m : IsFiniteNumber(m[f])
          /\ ZeroWhenNoDenominator(m.callsPerAccount, m.accounts)
          /\ ZeroWhenNoDenominator(m.connectRate, m.calls)
          /\ ZeroWhenNoDenominator(m.avgTimePerCallMin, m.calls)
          /\ ZeroWhenNoDenominator(m.rpcRate, m.connects)
          /\ ZeroWhenNoDenominator(m.promisesPerRpc, m.rpcs)
          /\ ZeroWhenNoDenominator(m.cashPerRpc, m.rpcs)
          /\ ZeroWhenNoDenominator(m.transfersPerRpc, m.rpcs)
          /\ ZeroWhenNoDenominator(m.dollarPerRpc, m.rpcs)
          /\ ZeroWhenNoDenominator(m.cashPerPromises, m.promises)
          /\ ZeroWhenNoDenominator(m.avgPaymentAmount, m.cashPayments)
    /\ \A w \in WelcomeRecords :
          /\ \A f \in DOMAIN w : IsFiniteNumber(w[f])
          /\ ZeroWhenNoDenominator(w.callsPerAccount, w.accounts)
          /\ ZeroWhenNoDenominator(w.connectRate, w.calls)
          /\ ZeroWhenNoDenominator(w.rpcRate, w.connects)
          /\ ZeroWhenNoDenominator(w.eligiblePerRpc, w.rpcs)
          /\ ZeroWhenNoDenominator(w.completedPerEligible, w.eligible)
          /\ ZeroWhenNoDenominator(w.completedPerRpc, w.rpcs)

\* an aggregate derived from rows with calls and transfers but no RPC, no
\* promise and no cash payment: ratios x/0 with x > 0 and ratios 0/0
C16_AggregateWithZeroDenominators ==
    \E m \in MetricsRecords :
        /\ m.calls # R(0)
        /\ m.transfers # R(0)
        /\ m.rpcs = R(0)
        /\ m.promises = R(0)
        /\ m.cashPayments = R(0)

-----------------------------------------------------------------------------
(* Specification of the scorecard scoring functions: createScorecardMetric, *)
(* getHealthStatus, calculateOverallScore, getOverallStatusFromScore and    *)
(* calculateMoMChange are applied to drawn inputs.                          *)

\* current values are drawn from 0 .. MaxMetricValue and from around 200
MaxMetricValue == 40
\* changes handed to getHealthStatus are drawn in steps of 1/2 up to MaxChange
MaxChange == 20

\* Math.max, Math.min and Math.round on rationals; Math.round rounds a half up
MathMax(a, b) == IF RLe(a, b) THEN b ELSE a
MathMin(a, b) == IF RLe(a, b) THEN a ELSE b
MathRound(x) == ((2 * x[1]) + x[2]) \div (2 * x[2])

\* a status with the threshold of 'good' met at +5 already
getHealthStatus_goodFromFive(change, invertLogic) ==
    IF RLe((IF invertLogic THEN RSub(R(0), change) ELSE change), R(-15)) THEN "critical"
    ELSE IF RLt((IF invertLogic THEN RSub(R(0), change) ELSE change), R(-5)) THEN "warning"
    ELSE IF RLe(R(5), (IF invertLogic THEN RSub(R(0), change) ELSE change)) THEN "good"
    ELSE "neutral"

getHealthStatus(change, invertLogic) ==
    LET Status(adjustedChange) ==
            IF RLe(adjustedChange, R(-15)) THEN "critical"
            ELSE IF RLt(adjustedChange, R(-5)) THEN "warning"
            ELSE IF RLt(R(5), adjustedChange) THEN "good"
            ELSE "neutral"
    IN  Status(IF invertLogic THEN RSub(R(0), change) ELSE change)

\* 'up' | 'down' | 'neutral' with the dead-band of half a percent
TrendOf(change) ==
    IF RLt(<<1, 2>>, change) THEN "up"
    ELSE IF RLt(change, <<-1, 2>>) THEN "down"
    ELSE "neutral"

ScorecardMetric(current, baseline, change, invertLogic) ==
    [current |-> current, baseline |-> baseline, change |-> change,
     trend |-> TrendOf(change), status |-> getHealthStatus(change, invertLogic)]

\* a metric whose trend has no dead-band
createScorecardMetric_noDeadBand(current, baseline, invertLogic) ==
    LET Metric(change) ==
            [current |-> current, baseline |-> baseline, change |-> change,
             trend |-> IF RLt(R(0), change) THEN "up"
                       ELSE IF RLt(change, R(0)) THEN "down" ELSE "neutral",
             status |-> getHealthStatus(change, invertLogic)]
    IN  Metric(IF RLt(R(0), baseline)
               THEN RMul(RDiv(RSub(current, baseline), baseline), R(100)) ELSE R(0))

createScorecardMetric(current, baseline, invertLogic) ==
    ScorecardMetric(current, baseline,
                    IF RLt(R(0), baseline)
                    THEN RMul(RDiv(RSub(current, baseline), baseline), R(100)) ELSE R(0),
                    invertLogic)

calculateMoMChange(current, previous) ==
    LET Changed(change) == [value |-> change, trend |-> TrendOf(change)]
    IN  IF previous = R(0) THEN [value |-> R(0), trend |-> "neutral"]
        ELSE Changed(RMul(RDiv(RSub(current, previous), previous), R(100)))

ScoreMetrics ==
    <<"callVolume", "connectRate", "rpcRate", "promiseRate", "paymentSuccess",
      "dollarCollected">>

weights ==
    [callVolume |-> <<1, 10>>, connectRate |-> <<3, 20>>, rpcRate |-> <<1, 5>>,
     promiseRate |-> <<3, 20>>, paymentSuccess |-> <<1, 5>>, dollarCollected |-> <<1, 5>>]

\* a score that takes the change as it is
getScore_unclamped(change) == RAdd(R(50), change)

getScore(change) == RAdd(R(50), MathMax(R(-50), MathMin(R(50), change)))

RECURSIVE WeightedScore(_, _)
WeightedScore(metrics, k) ==
    IF k = 0 THEN R(0)
    ELSE RAdd(WeightedScore(metrics, k - 1),
              RMul(weights[ScoreMetrics[k]], getScore(metrics[ScoreMetrics[k]].change)))

calculateOverallScore(metrics) ==
    MathRound(MathMax(R(0), MathMin(R(100), WeightedScore(metrics, Len(ScoreMetrics)))))

getOverallStatusFromScore(score) ==
    IF score >= 55 THEN "good"
    ELSE IF score >= 45 THEN "neutral"
    ELSE IF score >= 35 THEN "warning"
    ELSE "critical"

\* the values of a metric: small counts, and values around 200 whose changes
\* lie on and around the dead-band of half a percent
MetricValues == {R(n) : n \in (0 .. MaxMetricValue) \cup (198 .. 202)}
MetricBaselines == {R(0), R(20), R(200)}
ChangeValues == {RNorm(n, 2) : n \in (-2 * MaxChange) .. (2 * MaxChange)}

\* the (current, baseline) pairs of the six metrics of a client: unchanged,
\* at the status thresholds, and beyond the clamp
ScorePairs ==
    {<<R(0), R(0)>>, <<R(20), R(20)>>, <<R(17), R(20)>>, <<R(23), R(20)>>,
     <<R(0), R(20)>>, <<R(40), R(20)>>}

ScoreInit ==
    /\ \/ \E current \in MetricValues, baseline \in MetricBaselines, invertLogic \in BOOLEAN :
             sIn = [kind |-> "metric", current |-> current, baseline |-> baseline,
                    invertLogic |-> invertLogic]
       \/ \E change \in ChangeValues, invertLogic \in BOOLEAN :
             sIn = [kind |-> "change", change |-> change, invertLogic |-> invertLogic]
       \/ \E pairs \in [{"callVolume", "connectRate", "rpcRate", "promiseRate",
                         "paymentSuccess", "dollarCollected"} -> ScorePairs] :
             sIn = [kind |-> "client", pairs |-> pairs]
    /\ sOut = [fn |-> "none"]
    /\ store = {}
    /\ DateIdle
    /\ MetricsIdle
    /\ FanIdle
    /\ RouteIdle
    /\ HookIdle
    /\ JobIdle

ScoreReturned(fn, result) ==
    /\ sOut.fn = "none"
    /\ sOut' = [fn |-> fn, result |-> result]
    /\ UNCHANGED <<sIn, store, dateVars, metricVars, fanVars, route, hookVars, jobVars>>

Call_createScorecardMetric ==
    /\ sIn.kind = "metric"
    /\ ScoreReturned("createScorecardMetric",
                     createScorecardMetric(sIn.current, sIn.baseline, sIn.invertLogic))

Call_calculateMoMChange ==
    /\ sIn.kind = "metric"
    /\ ScoreReturned("calculateMoMChange", calculateMoMChange(sIn.current, sIn.baseline))

Call_getHealthStatus ==
    /\ sIn.kind = "change"
    /\ ScoreReturned("getHealthStatus", getHealthStatus(sIn.change, sIn.invertLogic))

\* the scorecard of one client: the six metrics are created, the overall score
\* is computed from them and the overall status from the score
ClientScorecard(metrics, overallScore) ==
    [metrics |-> metrics, overallScore |-> overallScore,
     overallStatus |-> getOverallStatusFromScore(overallScore)]

Call_calculateOverallScore ==
    LET Scored(metrics) == ClientScorecard(metrics, calculateOverallScore(metrics))
    IN  /\ sIn.kind = "client"
        /\ ScoreReturned("calculateOverallScore",
                         Scored([m \in DOMAIN sIn.pairs |->
                                    createScorecardMetric(sIn.pairs[m][1], sIn.pairs[m][2],
                                                          FALSE)]))

ScoreNext ==
    \/ Call_createScorecardMetric
    \/ Call_calculateMoMChange
    \/ Call_getHealthStatus
    \/ Call_calculateOverallScore

SpecScore == ScoreInit /\ [][ScoreNext]_vars

-----------------------------------------------------------------------------
(* Claims C17, C18, C19 *)

\* changePercent of a (current, baseline) pair
ChangePercent(current, baseline) ==
    IF baseline = R(0) THEN R(0)
    ELSE RMul(RDiv(RSub(current, baseline), baseline), R(100))

ClampedChange(change) ==
    IF RLt(change, R(-50)) THEN R(-50) ELSE IF RLt(R(50), change) THEN R(50) ELSE change

\* w * (50 + clamp(changePercent)) of one metric of the drawn client
Term(w, m) ==
    RMul(w, RAdd(R(50), ClampedChange(ChangePercent(sIn.pairs[m][1], sIn.pairs[m][2]))))

\* the weighted sum with the weights .10, .15, .20, .15, .20, .20
WeightedSum ==
    RAdd(RAdd(RAdd(Term(<<10, 100>>, "callVolume"), Term(<<15, 100>>, "connectRate")),
              RAdd(Term(<<20, 100>>, "rpcRate"), Term(<<15, 100>>, "promiseRate"))),
         RAdd(Term(<<20, 100>>, "paymentSuccess"), Term(<<20, 100>>, "dollarCollected")))

\* n is an integer nearest to x
NearestInteger(n, x) == RLe(RSub(x, <<1, 2>>), R(n)) /\ RLe(R(n), RAdd(x, <<1, 2>>))

\* C17: the overall score is the weighted sum of 50 + clamp(changePercent, -50, +50)
\* over the six metrics, rounded to the nearest integer; it is an integer in
\* 0 .. 100; and it is 50 with overall status neutral when every metric has
\* its current value equal to its baseline.
C17_OverallScoreIsRoundedWeightedSum ==
    sOut.fn = "calculateOverallScore" =>
        /\ NearestInteger(sOut.result.overallScore, WeightedSum)
        /\ sOut.result.overallScore \in 0 .. 100
        /\ (\A m \in DOMAIN sIn.pairs : sIn.pairs[m][1] = sIn.pairs[m][2]) =>
              /\ sOut.result.overallScore = 50
              /\ sOut.result.overallStatus = "neutral"

\* a scored client with a change above the clamp, a falling metric and a
\* weighted sum that is not an integer
C17_ScoreWithClampedAndFallingMetrics ==
    /\ sOut.fn = "calculateOverallScore"
    /\ \E m \in DOMAIN sIn.pairs : RLt(R(50), sOut.result.metrics[m].change)
    /\ \E m \in DOMAIN sIn.pairs : RLt(sOut.result.metrics[m].change, R(0))
    /\ WeightedSum[2] # 1

\* the change whose thresholds decide the status: negated when invertLogic is set
AdjustedChange ==
    IF sOut.fn = "getHealthStatus"
    THEN (IF sIn.invertLogic THEN RSub(R(0), sIn.change) ELSE sIn.change)
    ELSE (IF sIn.invertLogic THEN RSub(R(0), sOut.result.change) ELSE sOut.result.change)

StatusReturned ==
    IF sOut.fn = "getHealthStatus" THEN sOut.result ELSE sOut.result.status

ChangeReturned ==
    IF sOut.fn = "calculateMoMChange" THEN sOut.result.value ELSE sOut.result.change

\* C19: createScorecardMetric and calculateMoMChange return change 0 and trend
\* neutral when the baseline is 0; otherwise the change is
\* (current - baseline) / baseline * 100 and the trend is up iff the change
\* is > 0.5, down iff it is < -0.5, and neutral in between.
C19_ChangeAndTrend ==
    sOut.fn \in {"createScorecardMetric", "calculateMoMChange"} =>
        IF sIn.baseline = R(0)
        THEN ChangeReturned = R(0) /\ sOut.result.trend = "neutral"
        ELSE /\ RMul(ChangeReturned, sIn.baseline) =
                   RMul(RSub(sIn.current, sIn.baseline), R(100))
             /\ sOut.result.trend = "up" <=> RLt(<<1, 2>>, ChangeReturned)
             /\ sOut.result.trend = "down" <=> RLt(ChangeReturned, <<-1, 2>>)
             /\ sOut.result.trend = "neutral" <=>
                   (RLe(<<-1, 2>>, ChangeReturned) /\ RLe(ChangeReturned, <<1, 2>>))

\* a metric that rose from 200 to 201: the change is 0.5 exactly, on the edge
\* of the dead-band
C19_ChangeOnDeadBandEdge ==
    /\ sOut.fn = "createScorecardMetric"
    /\ sIn.baseline = R(200)
    /\ sIn.current = R(201)
    /\ sOut.result.change = <<1, 2>>
    /\ sOut.result.trend = "neutral"

-----------------------------------------------------------------------------
(* Claim C20 *)

\* C20: every stored call counted as a cash payment is counted as a promise,
\* the cash codes are a strict subset of the promise codes, and in every
\* aggregate, parsed or totalled, cashPayments <= promises.
C20_CashPaymentsWithinPromises ==
    /\ CASH_RESULTS \subseteq PTP_RESULTS
    /\ CASH_RESULTS # PTP_RESULTS
    /\ \A c \in store : isCashPayment(c) => isPromise(c)
    /\ \A m \in MetricsRecords : RLe(m.cashPayments, m.promises)

\* an aggregate with a cash payment and with a promise that is no cash payment
C20_AggregateWithCashAndOtherPromise ==
    \E m \in MetricsRecords : RLt(R(0), m.cashPayments) /\ RLt(m.cashPayments, m.promises)

-----------------------------------------------------------------------------
(* Claim C21 *)

\* the start time of the call lies in the range, both ends included
StartsWithin(c, range) ==
    /\ DateLE(range.start, [nan |-> FALSE, day |-> c.day, ms |-> c.sec * 1000])
    /\ DateLE([nan |-> FALSE, day |-> c.day, ms |-> c.sec * 1000], range.end)

\* the stored calls of the client that the aggregate of the range is to count:
\* those that start within the range and are no test calls
CallsWithin(client, range) ==
    {c \in store : /\ c.client = client
                   /\ StartsWithin(c, range)
                   /\ c.account_number \notin (TEST_ACCOUNTS \cup {""})
                   /\ c.phone_number \notin TEST_PHONE_NUMBERS}

\* C21: the end of a range is inclusive: every call that starts at or after
\* range.start and at or before range.end, the last second of the final day
\* included, is counted in the rows fetched for the range.
C21_RangeEndInclusive ==
    \A client \in mDone :
        SumInt(mRows[client], [r \in mRows[client] |-> r.calls]) =
            Cardinality(CallsWithin(client, MWindow))

-----------------------------------------------------------------------------
(* Claim C22 *)

\* the day of the Sunday that starts the week of the date
SundayOf(date) == date.day - (date.day % 7)

\* C22: for a valid date and N weeks, getWeeklyAverageRange starts at 00:00 of
\* the Sunday N*7 days before the Sunday of the date's week and ends at the
\* end of the Saturday before that week: N whole Sunday-Saturday weeks, ending
\* the day before the week and week-to-date ranges of the date start.
C22_WeeklyAverageRangeIsNWholeWeeks ==
    (dOut.fn = "getWeeklyAverageRange" /\ ~dIn.nan) =>
        /\ dOut.result.start = [nan |-> FALSE, day |-> SundayOf(dIn) - 7 * dOut.weeks,
                                ms |-> StartOfDay]
        /\ dOut.result.end = [nan |-> FALSE, day |-> SundayOf(dIn) - 1, ms |-> EndOfDay]
        /\ GetDay(dOut.result.start) = 0
        /\ GetDay(dOut.result.end) = 6
        /\ dOut.result.end.day - dOut.result.start.day + 1 = 7 * dOut.weeks
        /\ getWeekRange(dIn).start.day = dOut.result.end.day + 1
        /\ getWeekToDateRange(dIn).start.day = dOut.result.end.day + 1

\* three weeks before the week of a Wednesday noon, beginning in the year before
C22_ThreeWeeksAcrossYearEnd ==
    /\ dOut.fn = "getWeeklyAverageRange"
    /\ ~dIn.nan
    /\ dOut.weeks = 3
    /\ GetDay(dIn) = 3
    /\ dIn.ms # StartOfDay
    /\ GetFullYear(dOut.result.start) < GetFullYear(dOut.result.end)

-----------------------------------------------------------------------------
(* Specification of fetchPerClientKPIsWithDateRange: the store client is   *)
(* created, the current and the comparison query are issued together and   *)
(* awaited with Promise.all, and the finally block closes the client.      *)

PerClients == {"aca", "cps", "westlake"}

NewPer(client, config, comparisonType) ==
    [pc |-> "start", client |-> client, currentRange |-> config.currentRange,
     comparisonRange |-> config.comparisonRange, comparisonType |-> comparisonType,
     inflight |-> {}, rows |-> << >>, closes |-> 0, inflightAtClose |-> {},
     result |-> [status |-> "pending"]]

PerInit ==
    /\ store = RoutePool
    /\ \E client \in PerClients, comparisonType \in ComparisonTypes,
          referenceDate \in RouteDates \cup {NaNDate} :
          /\ per = NewPer(client, getPeriodConfig(comparisonType, referenceDate), comparisonType)
          /\ unavailable \in SUBSET {Task(client, p) : p \in {"current", "comparison"}}
    /\ availableClientsCache = NoCache
    /\ fan = [pc |-> "idle"]
    /\ trend = [pc |-> "idle"]
    /\ card = [pc |-> "idle"]
    /\ FwIdle
    /\ DateIdle
    /\ MetricsIdle
    /\ RouteIdle
    /\ HookIdle
    /\ ScoreIdle

\* the two clickhouse.query calls inside Promise.all([...])
PerDispatch ==
    /\ per.pc = "start"
    /\ per' = [per EXCEPT !.pc = "await",
                          !.inflight = {Task(per.client, p) : p \in {"current", "comparison"}}]
    /\ UNCHANGED <<store, fanVars, dateVars, metricVars, route, hookVars, scoreVars, trend, card, fw>>

\* one query returns its rows while Promise.all is pending
PerResolve(t) ==
    /\ per.pc = "await"
    /\ t \in per.inflight
    /\ ~QueryFails(t, TaskQuery(per, t))
    /\ per' = [per EXCEPT !.inflight = @ \ {t},
                          !.rows = @ @@ (t :> QueryRows(store, TaskQuery(per, t)))]
    /\ UNCHANGED <<store, fanVars, dateVars, metricVars, route, hookVars, scoreVars, trend, card, fw>>

\* one query throws: Promise.all rejects at once, the finally block closes the
\* client and the error leaves the function
PerReject(t) ==
    /\ per.pc = "await"
    /\ t \in per.inflight
    /\ QueryFails(t, TaskQuery(per, t))
    /\ per' = [per EXCEPT !.pc = "done", !.inflight = @ \ {t},
                          !.closes = @ + 1, !.inflightAtClose = per.inflight \ {t},
                          !.result = [status |-> "error", message |-> "query failed"]]
    /\ UNCHANGED <<store, fanVars, dateVars, metricVars, route, hookVars, scoreVars, trend, card, fw>>

\* a query that was still in flight when the function left settles afterwards
PerSettleLate(t) ==
    /\ per.pc = "done"
    /\ t \in per.inflight
    /\ per' = [per EXCEPT !.inflight = @ \ {t}]
    /\ UNCHANGED <<store, fanVars, dateVars, metricVars, route, hookVars, scoreVars, trend, card, fw>>

\* both queries returned: the view data is built, the finally block closes the client
PerReturn ==
    /\ per.pc = "await"
    /\ per.inflight = {}
    /\ per' = [per EXCEPT !.pc = "done", !.closes = @ + 1, !.inflightAtClose = {},
                  !.result = [status |-> "ok", client |-> per.client,
                              currentPeriod |-> parseKPIResults(per.rows[Task(per.client, "current")]),
                              previousPeriod |-> parseKPIResults(per.rows[Task(per.client, "comparison")]),
                              currentPeriodLabel |-> per.currentRange.label,
                              previousPeriodLabel |-> per.comparisonRange.label,
                              comparisonType |-> per.comparisonType,
                              comparisonContext |-> "vs " \o per.comparisonRange.label]]
    /\ UNCHANGED <<store, fanVars, dateVars, metricVars, route, hookVars, scoreVars, trend, card, fw>>

PerNext ==
    \/ PerDispatch
    \/ \E t \in per.inflight : PerResolve(t)
    \/ \E t \in per.inflight : PerReject(t)
    \/ \E t \in per.inflight : PerSettleLate(t)
    \/ PerReturn

SpecPer == PerInit /\ [][PerNext]_vars

-----------------------------------------------------------------------------
(* Claim C30 *)

\* C30: the per-client fetch closes the store client exactly once on every
\* path, and no query it issued is in flight when the client is closed.
C30_ClosedOnceAndNeverWhileInFlight ==
    /\ per.closes <= 1
    /\ per.pc = "done" => (per.closes = 1 /\ per.inflightAtClose = {})

-----------------------------------------------------------------------------
(* Specification of fetchHistoricalTrends: the list of months is built     *)
(* from the clock, the available clients are listed for client 'all', the  *)
(* months are fetched in slices of MONTH_BATCH_SIZE with Promise.all, each *)
(* month awaiting one query per client, and the client is closed.          *)

\* fetchHistoricalTrends is asked for 0 .. MaxMonths months
MaxMonths == 5
MONTH_BATCH_SIZE == 4

\* String(month).padStart(2, '0')
PadStart2(n) == IF n < 10 THEN "0" \o ToString(n) ELSE ToString(n)

\* one entry of monthsToFetch, for new Date(now.getFullYear(), now.getMonth() - i, 1)
MonthInfo(date) ==
    [year |-> GetFullYear(date), month |-> GetMonth(date) + 1,
     label |-> MonthNames[GetMonth(date) + 1] \o "-" \o ToString(GetFullYear(date) % 100),
     value |-> ToString(GetFullYear(date)) \o "-" \o PadStart2(GetMonth(date) + 1)]

\* the loop for (let i = months - 1; i >= 0; i--): position k holds i = months - k
monthsToFetch(now, months) ==
    [k \in 1 .. months |->
        MonthInfo(NewDate(GetFullYear(now), GetMonth(now) - (months - k), 1))]

\* the query of one month for one client: from the first of the month,
\* 00:00:00, to the first of the next month, 00:00:00
MonthQuery(c, info) ==
    buildClientKPIQuery(c,
        [nan |-> FALSE, y |-> info.year, m |-> info.month, d |-> 1, sec |-> 0],
        IF info.month = 12
        THEN [nan |-> FALSE, y |-> info.year + 1, m |-> 1, d |-> 1, sec |-> 0]
        ELSE [nan |-> FALSE, y |-> info.year, m |-> info.month + 1, d |-> 1, sec |-> 0])

\* the clients whose queries one month awaits
TrendClients(t) == IF t.client = "all" THEN t.clientsToFetch ELSE <<t.client>>

\* the queries of the slice monthsToFetch.slice(i, i + MONTH_BATCH_SIZE)
MonthBatch(t) ==
    SubSeq(t.monthsToFetch, t.i + 1,
           IF t.i + MONTH_BATCH_SIZE < Len(t.monthsToFetch)
           THEN t.i + MONTH_BATCH_SIZE ELSE Len(t.monthsToFetch))

BatchQueries(t) ==
    {Task(TrendClients(t)[j], MonthBatch(t)[k].value) :
        j \in DOMAIN TrendClients(t), k \in DOMAIN MonthBatch(t)}

\* the kpis of one query: the parsed rows, or the empty record in the catch
MonthClientKpis(c, info) ==
    IF QueryFails(Task(c, info.value), MonthQuery(c, info))
    THEN emptyPeriodKPIs
    ELSE parseKPIResults(QueryRows(store, MonthQuery(c, info)))

RECURSIVE SumClients(_, _, _)
SumClients(clients, got, value) ==
    IF clients = << >> THEN emptyPeriodKPIs
    ELSE sumPeriodKPIs(SumClients(SubSeq(clients, 1, Len(clients) - 1), got, value),
                       got[Task(clients[Len(clients)], value)])

\* monthKPIs of fetchMonthData and the point it returns
MonthPoint(t, info) ==
    LET Point(kpis) == [month |-> info.value, label |-> info.label,
                        collections |-> kpis.collections, inbound |-> kpis.inbound]
    IN  IF t.client = "all"
        THEN Point(recalculateDerivedMetrics(SumClients(t.clientsToFetch, t.got, info.value)))
        ELSE Point(t.got[Task(t.client, info.value)])

\* the points of a slice in the order in which its months completed
batchResults_completionOrder(t) ==
    [k \in DOMAIN t.order |-> MonthPoint(t, MonthBatch(t)[t.order[k]])]

\* await Promise.all(monthBatch.map(fetchMonthData)): the points in slice order
batchResults(t) ==
    [k \in DOMAIN MonthBatch(t) |-> MonthPoint(t, MonthBatch(t)[k])]

TrendNows == {[nan |-> FALSE, day |-> MakeDay(2025, 0, 15), ms |-> 43200000],
              [nan |-> FALSE, day |-> MakeDay(2025, 2, 31), ms |-> EndOfDay]}

TrendPool ==
    { Call(41, "aca", MakeDay(2025, 2, 3), 100, "POP", 0, "collections", "outbound", "A1", "P1", 300, 100, 0, 0),
      Call(42, "aca", MakeDay(2025, 0, 10), 100, "PHO", 0, "collections", "outbound", "A2", "P2", 240, 50, 50, 0),
      Call(43, "aca", MakeDay(2024, 11, 20), 100, "POP", 0, "collections", "inbound", "A3", "P3", 180, 75, 0, 0),
      Call(44, "aca", MakeDay(2024, 10, 5), 100, "NOA", 0, "collections", "outbound", "A1", "P1", 20, 0, 0, 0),
      Call(45, "cps", MakeDay(2025, 0, 2), 100, "POP", 0, "collections", "outbound", "B1", "P5", 200, 40, 0, 0),
      Call(46, "cps", MakeDay(2024, 11, 31), 86399, "PHO", 0, "collections", "inbound", "B2", "P6", 100, 30, 30, 0),
      Call(47, "westlake", MakeDay(2025, 1, 14), 100, "POP", 0, "collections", "outbound", "W1", "P7", 90, 20, 0, 0) }

\* the store is up, or down for the table listing, for one client's current
\* month, or for every client's previous month
TrendOutages(now) ==
    { {}, {TablesQuery},
      {Task("aca", MonthInfo(now).value)},
      {Task(c, MonthInfo(NewDate(GetFullYear(now), GetMonth(now) - 1, 1)).value) :
          c \in {"aca", "cps", "westlake"}} }

NewTrend(client, months, excludeWestlake, now) ==
    [pc |-> "start", client |-> client, months |-> months,
     excludeWestlake |-> excludeWestlake, now |-> now,
     monthsToFetch |-> monthsToFetch(now, months), clientsToFetch |-> << >>, i |-> 0,
     inflight |-> {}, got |-> << >>, order |-> << >>, overtaken |-> FALSE,
     monthlyData |-> << >>, closed |-> FALSE, result |-> [status |-> "pending"]]

TrendInit ==
    /\ store = TrendPool
    /\ availableClientsCache \in
          {NoCache, [valid |-> TRUE, clients |-> <<"aca", "westlake">>],
           [valid |-> TRUE, clients |-> KnownClients(TableClients)]}
    /\ \E client \in {"aca", "all"}, months \in 0 .. MaxMonths,
          excludeWestlake \in BOOLEAN, now \in TrendNows :
          /\ trend = NewTrend(client, months, excludeWestlake, now)
          /\ unavailable \in TrendOutages(now)
    /\ fan = [pc |-> "idle"]
    /\ per = [pc |-> "idle"]
    /\ card = [pc |-> "idle"]
    /\ FwIdle
    /\ DateIdle
    /\ MetricsIdle
    /\ RouteIdle
    /\ HookIdle
    /\ ScoreIdle

\* a single client, or 'all' with a cache entry younger than the TTL: no listing
TrendStart ==
    /\ trend.pc = "start"
    /\ trend.client # "all" \/ availableClientsCache.valid
    /\ trend' = [trend EXCEPT !.pc = "loop",
                    !.clientsToFetch =
                        IF trend.client = "all"
                        THEN WithoutWestlake(availableClientsCache.clients, trend.excludeWestlake)
                        ELSE << >>]
    /\ UNCHANGED <<store, unavailable, availableClientsCache, fan, dateVars, metricVars, route, hookVars, scoreVars, per, card, fw>>

\* 'all' without a valid cache entry: the system.tables query is issued
TrendStartListing ==
    /\ trend.pc = "start"
    /\ trend.client = "all"
    /\ ~availableClientsCache.valid
    /\ trend' = [trend EXCEPT !.pc = "listing", !.inflight = {TablesQuery}]
    /\ UNCHANGED <<store, unavailable, availableClientsCache, fan, dateVars, metricVars, route, hookVars, scoreVars, per, card, fw>>

\* the listing returns: the cache is filled and the loop begins
TrendListed ==
    /\ trend.pc = "listing"
    /\ TablesQuery \notin unavailable
    /\ availableClientsCache' = [valid |-> TRUE, clients |-> KnownClients(TableClients)]
    /\ trend' = [trend EXCEPT !.pc = "loop", !.inflight = {},
                    !.clientsToFetch = WithoutWestlake(KnownClients(TableClients),
                                                       trend.excludeWestlake)]
    /\ UNCHANGED <<store, unavailable, fan, dateVars, metricVars, route, hookVars, scoreVars, per, card, fw>>

\* the listing throws: finally closes the client, the error leaves the function
TrendListFailed ==
    /\ trend.pc = "listing"
    /\ TablesQuery \in unavailable
    /\ trend' = [trend EXCEPT !.pc = "done", !.inflight = {}, !.closed = TRUE,
                    !.result = [status |-> "error", message |-> "query failed"]]
    /\ UNCHANGED <<store, unavailable, availableClientsCache, fan, dateVars, metricVars, route, hookVars, scoreVars, per, card, fw>>

\* the head of the loop: fetchMonthData is started for every month of the
\* slice, and each issues its queries
TrendDispatch ==
    /\ trend.pc = "loop"
    /\ trend.i < Len(trend.monthsToFetch)
    /\ trend' = [trend EXCEPT !.pc = "await", !.inflight = BatchQueries(trend),
                              !.got = << >>, !.order = << >>]
    /\ UNCHANGED <<store, unavailable, availableClientsCache, fan, dateVars, metricVars, route, hookVars, scoreVars, per, card, fw>>

\* the months of the slice, by position, none of whose queries is in flight
MonthsSettled(t, inflight) ==
    {k \in DOMAIN MonthBatch(t) :
        \A j \in DOMAIN TrendClients(t) :
            Task(TrendClients(t)[j], MonthBatch(t)[k].value) \notin inflight}

\* one query settles, in any order; a month whose last query it was completes
TrendSettle(q) ==
    LET Settled(k) ==
            /\ q[2] = MonthBatch(trend)[k].value
            /\ k \in MonthsSettled(trend, trend.inflight \ {q})
        CompletedBy == {k \in DOMAIN MonthBatch(trend) : Settled(k)}
        Info == MonthBatch(trend)[CHOOSE k \in DOMAIN MonthBatch(trend) :
                                     MonthBatch(trend)[k].value = q[2]]
    IN  /\ trend.pc = "await"
        /\ q \in trend.inflight
        /\ trend' = [trend EXCEPT
                        !.inflight = @ \ {q},
                        !.got = @ @@ (q :> MonthClientKpis(q[1], Info)),
                        !.order = IF CompletedBy = {} THEN @
                                  ELSE Append(@, CHOOSE k \in CompletedBy : TRUE),
                        !.overtaken = @ \/ \E k \in CompletedBy : \E j \in 1 .. (k - 1) :
                                              j \notin MonthsSettled(trend, trend.inflight)]
        /\ UNCHANGED <<store, unavailable, availableClientsCache, fan, dateVars, metricVars, route, hookVars, scoreVars, per, card, fw>>

\* Promise.all resolves: the points of the slice are pushed, the loop advances
TrendPush ==
    /\ trend.pc = "await"
    /\ trend.inflight = {}
    /\ trend' = [trend EXCEPT !.pc = "loop", !.i = @ + MONTH_BATCH_SIZE,
                              !.monthlyData = @ \o batchResults(trend)]
    /\ UNCHANGED <<store, unavailable, availableClientsCache, fan, dateVars, metricVars, route, hookVars, scoreVars, per, card, fw>>

\* after the loop: the trend data is returned and finally closes the client
TrendReturn ==
    /\ trend.pc = "loop"
    /\ trend.i >= Len(trend.monthsToFetch)
    /\ trend' = [trend EXCEPT !.pc = "done", !.closed = TRUE,
                    !.result = [status |-> "ok", months |-> trend.monthlyData,
                                periodCount |-> trend.months]]
    /\ UNCHANGED <<store, unavailable, availableClientsCache, fan, dateVars, metricVars, route, hookVars, scoreVars, per, card, fw>>

TrendNext ==
    \/ TrendStart
    \/ TrendStartListing
    \/ TrendListed
    \/ TrendListFailed
    \/ TrendDispatch
    \/ \E q \in trend.inflight : TrendSettle(q)
    \/ TrendPush
    \/ TrendReturn

SpecTrend == TrendInit /\ [][TrendNext]_vars


-----------------------------------------------------------------------------
(* Claims C23 and C26 *)

\* the calendar month number idx (year * 12 + month index) written 'YYYY-MM'
CalendarMonth(idx) ==
    ToString(idx \div 12) \o "-"
        \o (IF (idx % 12) + 1 < 10 THEN "0" ELSE "") \o ToString((idx % 12) + 1)

CurrentMonth(t) == GetFullYear(t.now) * 12 + GetMonth(t.now)

\* C23: when fetchHistoricalTrends(client, n) returns, it returns exactly n
\* month points; point k is the calendar month n - k months before the
\* current one, so the points are consecutive months in increasing order and
\* the last is the current month, whatever the completion order and failures.
C23_MonthPointsInCalendarOrder ==
    (trend.pc = "done" /\ trend.result.status = "ok") =>
        /\ Len(trend.result.months) = trend.months
        /\ \A k \in 1 .. trend.months :
              trend.result.months[k].month = CalendarMonth(CurrentMonth(trend) - (trend.months - k))

\* five months of all clients across a year end are returned after a later
\* month of a slice completed before an earlier one and a month query failed
C23_TrendsAfterOvertakingAndFailure ==
    /\ trend.pc = "done"
    /\ trend.result.status = "ok"
    /\ trend.client = "all"
    /\ trend.months = 5
    /\ trend.overtaken
    /\ unavailable # {}
    /\ trend.monthsToFetch[1].year < GetFullYear(trend.now)

\* C26: in all-client historical trends no more than MONTH_BATCH_SIZE store
\* queries are in flight at any moment, however many clients there are.
C26_TrendQueriesInFlightBounded ==
    trend.client = "all" => Cardinality(trend.inflight) <= MONTH_BATCH_SIZE


-----------------------------------------------------------------------------
(* Specification of fetchAllClientsScorecardData: the five windows are     *)
(* computed from the clock, the available clients are listed, one task per *)
(* client and window is built, the tasks are run in slices with            *)
(* Promise.all, each result is stored in its slot, and the scorecards are  *)
(* built from the slots before the client is closed.                       *)

\* besides QUERY_BATCH_SIZE, slices of 1 .. MaxCardBatch tasks are modelled
MaxCardBatch == 3
QUERY_BATCH_SIZE == 30
\* the baseline periods of the scorecard
BASELINE_PERIODS == 4

\* a weekRanges entry that ends on the day the window after it starts
weekRanges_endingOnNextStart(now) ==
    [k \in 1 .. (BASELINE_PERIODS + 1) |->
        IF k = 1
        THEN [start |-> formatDateTimeForQuery(getRolling7DayRange(now).start),
              end |-> formatDateTimeEndForQuery(getRolling7DayRange(now).end)]
        ELSE [start |-> formatDateTimeForQuery(getRolling7DayRange(
                            SetDate(getRolling7DayRange(now).start,
                                    GetDate(getRolling7DayRange(now).start) - ((k - 2) * 7))).start),
              end |-> formatDateTimeEndForQuery(getRolling7DayRange(
                            SetDate(getRolling7DayRange(now).start,
                                    GetDate(getRolling7DayRange(now).start) - ((k - 2) * 7))).end)]]

\* weekRanges: entry 1 is period 0, the rolling 7 days of now; entry w + 1 is
\* the rolling 7 days of the day ((w - 1) * 7) + 1 days before its start
weekRanges(now) ==
    LET currentRange == getRolling7DayRange(now)
        Formatted(range) == [start |-> formatDateTimeForQuery(range.start),
                             end |-> formatDateTimeEndForQuery(range.end)]
        periodEnd(w) == SetDate(currentRange.start,
                                GetDate(currentRange.start) - ((w - 1) * 7) - 1)
    IN  [k \in 1 .. (BASELINE_PERIODS + 1) |->
            IF k = 1 THEN Formatted(currentRange)
            ELSE Formatted(getRolling7DayRange(periodEnd(k - 1)))]

\* the task { client, weekIndex, range }: the index is kept as it prints
QueryTask(client, weekIndex) == Task(client, ToString(weekIndex))
WeekIndexOf(t) == CHOOSE w \in 0 .. BASELINE_PERIODS : ToString(w) = t[2]

\* allQueryTasks: for each client, the windows 0 .. 4 in order
allQueryTasks(clients) ==
    [n \in 1 .. (Len(clients) * (BASELINE_PERIODS + 1)) |->
        QueryTask(clients[((n - 1) \div (BASELINE_PERIODS + 1)) + 1],
                  (n - 1) % (BASELINE_PERIODS + 1))]

\* allQueryTasks.slice(i, i + batchSize)
taskBatch(c) ==
    SubSeq(allQueryTasks(c.availableClients), c.i + 1,
           IF c.i + c.batchSize < Len(allQueryTasks(c.availableClients))
           THEN c.i + c.batchSize ELSE Len(allQueryTasks(c.availableClients)))

CardQuery(c, t) ==
    buildClientKPIQuery(t[1], c.weekRanges[WeekIndexOf(t) + 1].start,
                        c.weekRanges[WeekIndexOf(t) + 1].end)

\* the kpis of one task: the parsed rows, or the empty record in the catch
TaskKpis(c, t) ==
    IF QueryFails(t, CardQuery(c, t)) THEN emptyPeriodKPIs
    ELSE parseKPIResults(QueryRows(store, CardQuery(c, t)))

\* slots filled with the results in the order in which they arrived
StoreBatch_byArrival(queryResults, batch, got, order) ==
    [client \in DOMAIN queryResults |->
        [w \in 1 .. (BASELINE_PERIODS + 1) |->
            IF \E n \in DOMAIN batch : batch[n] = QueryTask(client, w - 1)
            THEN got[order[CHOOSE n \in DOMAIN batch : batch[n] = QueryTask(client, w - 1)]]
            ELSE queryResults[client][w]]]

\* for (const { client, weekIndex, kpis } of batchResults)
\*     queryResults.get(client)[weekIndex] = kpis
StoreBatch(queryResults, batch, got, order) ==
    [client \in DOMAIN queryResults |->
        [w \in 1 .. (BASELINE_PERIODS + 1) |->
            IF \E n \in DOMAIN batch : batch[n] = QueryTask(client, w - 1)
            THEN got[QueryTask(client, w - 1)]
            ELSE queryResults[client][w]]]

RECURSIVE SumKpis(_)
SumKpis(weekly) ==
    IF weekly = << >> THEN emptyPeriodKPIs
    ELSE sumPeriodKPIs(SumKpis(SubSeq(weekly, 1, Len(weekly) - 1)), weekly[Len(weekly)])

averageWeeklyKPIs(weekly) ==
    IF Len(weekly) = 0 THEN emptyPeriodKPIs
    ELSE recalculateDerivedMetrics(DivideKPIs(SumKpis(weekly), Len(weekly)))

\* weekResults.slice(1).filter(Boolean)
BaselineWeeks(weekResults) ==
    LET Filled(k) == k # Null IN SelectSeq(Tail(weekResults), Filled)

\* currentX > 0 ? (currentY / currentX) * 100 : 0
RateOf(part, whole) == IF RLt(R(0), whole) THEN RMul(RDiv(part, whole), R(100)) ELSE R(0)

\* the scorecard of one client from its current and baseline kpis
ScorecardOf(client, current, baseline) ==
    LET Both(k, field) == RAdd(k.collections[field], k.inbound[field])
        Metrics ==
            [callVolume |-> createScorecardMetric(Both(current, "calls"),
                                                  Both(baseline, "calls"), FALSE),
             connectRate |-> createScorecardMetric(
                                 RateOf(Both(current, "connects"), Both(current, "calls")),
                                 RateOf(Both(baseline, "connects"), Both(baseline, "calls")), FALSE),
             rpcRate |-> createScorecardMetric(
                                 RateOf(Both(current, "rpcs"), Both(current, "connects")),
                                 RateOf(Both(baseline, "rpcs"), Both(baseline, "connects")), FALSE),
             promiseRate |-> createScorecardMetric(
                                 RateOf(Both(current, "promises"), Both(current, "rpcs")),
                                 RateOf(Both(baseline, "promises"), Both(baseline, "rpcs")), FALSE),
             paymentSuccess |-> createScorecardMetric(
                                 RateOf(Both(current, "cashPayments"), Both(current, "rpcs")),
                                 RateOf(Both(baseline, "cashPayments"), Both(baseline, "rpcs")), FALSE),
             dollarCollected |-> createScorecardMetric(Both(current, "dollarCollected"),
                                                       Both(baseline, "dollarCollected"), FALSE)]
    IN  [client |-> client, metrics |-> Metrics,
         overallScore |-> calculateOverallScore(Metrics),
         overallStatus |-> getOverallStatusFromScore(calculateOverallScore(Metrics)),
         currentPeriodLabel |-> "", comparisonLabel |-> "vs 4-week avg"]

CardNows == {[nan |-> FALSE, day |-> MakeDay(2025, 0, 15), ms |-> 43200000],
             [nan |-> FALSE, day |-> MakeDay(2025, 2, 3), ms |-> StartOfDay],
             [nan |-> FALSE, day |-> MakeDay(2024, 2, 3), ms |-> 43200000],
             [nan |-> FALSE, day |-> MakeDay(2025, 0, 1), ms |-> EndOfDay]}

CardDay == MakeDay(2025, 0, 15)

CardPool ==
    { Call(51, "aca", CardDay, 100, "POP", 0, "collections", "outbound", "A1", "P1", 300, 100, 0, 0),
      Call(52, "aca", CardDay - 6, 0, "PHO", 0, "collections", "outbound", "A2", "P2", 240, 50, 50, 0),
      Call(53, "aca", CardDay - 7, 100, "POP", 0, "collections", "inbound", "A3", "P3", 180, 75, 0, 0),
      Call(54, "aca", CardDay - 14, 100, "NOA", 0, "collections", "outbound", "A1", "P1", 20, 0, 0, 0),
      Call(55, "aca", CardDay - 27, 100, "PHO", 0, "collections", "outbound", "A4", "P4", 90, 20, 20, 0),
      Call(56, "aca", CardDay - 34, 0, "POP", 0, "collections", "outbound", "A5", "P5", 60, 10, 0, 0),
      Call(57, "cps", CardDay - 1, 100, "POP", 0, "collections", "outbound", "B1", "P6", 200, 40, 0, 0),
      Call(58, "cps", CardDay - 8, 100, "PHO", 0, "collections", "inbound", "B2", "P7", 100, 30, 30, 0),
      Call(59, "cps", CardDay - 20, 100, "XCSV", 0, "collections", "outbound", "B3", "P8", 150, 0, 0, 0),
      Call(60, "westlake", CardDay - 3, 100, "POP", 0, "collections", "outbound", "W1", "P9", 90, 20, 0, 0) }

\* the store is up, or down for the table listing or for some tasks
CardOutages ==
    { {}, {TablesQuery}, {QueryTask("aca", 0)},
      {QueryTask("aca", 2), QueryTask("cps", 0), QueryTask("cps", 1)} }

NewCard(now, batchSize) ==
    [pc |-> "start", now |-> now, batchSize |-> batchSize,
     currentRange |-> getRolling7DayRange(now), weekRanges |-> weekRanges(now),
     availableClients |-> << >>, i |-> 0, inflight |-> {}, got |-> << >>,
     order |-> << >>, overtaken |-> FALSE, queryResults |-> << >>, closed |-> FALSE,
     result |-> [status |-> "pending"]]

\* the cache of getAvailableClients holds one client and the slices are of any
\* modelled size, or it holds two clients or is empty (the listing finds
\* three) and the slices are of 1 .. MaxCardBatch tasks
CardInit ==
    /\ store = CardPool
    /\ unavailable \in CardOutages
    /\ \E now \in CardNows :
          \/ /\ availableClientsCache = [valid |-> TRUE, clients |-> <<"aca">>]
             /\ \E batchSize \in (1 .. MaxCardBatch) \cup {QUERY_BATCH_SIZE} :
                   card = NewCard(now, batchSize)
          \/ /\ availableClientsCache \in {NoCache, [valid |-> TRUE, clients |-> <<"aca", "cps">>]}
             /\ \E batchSize \in 1 .. MaxCardBatch : card = NewCard(now, batchSize)
    /\ fan = [pc |-> "idle"]
    /\ per = [pc |-> "idle"]
    /\ trend = [pc |-> "idle"]
    /\ FwIdle
    /\ DateIdle
    /\ MetricsIdle
    /\ RouteIdle
    /\ HookIdle
    /\ ScoreIdle

\* queryResults.set(client, new Array(weekRanges.length).fill(null))
EmptySlots(clients) ==
    [c \in {clients[n] : n \in DOMAIN clients} |->
        [w \in 1 .. (BASELINE_PERIODS + 1) |-> Null]]

\* getAvailableClients with a cache entry younger than the TTL: no query
CardStartCached ==
    /\ card.pc = "start"
    /\ availableClientsCache.valid
    /\ card' = [card EXCEPT !.pc = "loop",
                            !.availableClients = availableClientsCache.clients,
                            !.queryResults = EmptySlots(availableClientsCache.clients)]
    /\ UNCHANGED <<store, unavailable, availableClientsCache, fan, dateVars, metricVars, route, hookVars, scoreVars, per, trend, fw>>

\* getAvailableClients without a valid cache entry: the system.tables query is issued
CardStartListing ==
    /\ card.pc = "start"
    /\ ~availableClientsCache.valid
    /\ card' = [card EXCEPT !.pc = "listing", !.inflight = {TablesQuery}]
    /\ UNCHANGED <<store, unavailable, availableClientsCache, fan, dateVars, metricVars, route, hookVars, scoreVars, per, trend, fw>>

\* the listing returns: the cache is filled, the tasks and the slots are built
CardListed ==
    /\ card.pc = "listing"
    /\ TablesQuery \notin unavailable
    /\ availableClientsCache' = [valid |-> TRUE, clients |-> KnownClients(TableClients)]
    /\ card' = [card EXCEPT !.pc = "loop", !.inflight = {},
                            !.availableClients = KnownClients(TableClients),
                            !.queryResults = EmptySlots(KnownClients(TableClients))]
    /\ UNCHANGED <<store, unavailable, fan, dateVars, metricVars, route, hookVars, scoreVars, per, trend, fw>>

\* the listing throws: finally closes the client, the error leaves the function
CardListFailed ==
    /\ card.pc = "listing"
    /\ TablesQuery \in unavailable
    /\ card' = [card EXCEPT !.pc = "done", !.inflight = {}, !.closed = TRUE,
                            !.result = [status |-> "error", message |-> "query failed"]]
    /\ UNCHANGED <<store, unavailable, availableClientsCache, fan, dateVars, metricVars, route, hookVars, scoreVars, per, trend, fw>>

\* the head of the loop: the queries of the next slice are all issued
CardDispatch ==
    /\ card.pc = "loop"
    /\ card.i < Len(allQueryTasks(card.availableClients))
    /\ card' = [card EXCEPT !.pc = "await", !.got = << >>, !.order = << >>,
                            !.inflight = {taskBatch(card)[n] : n \in DOMAIN taskBatch(card)}]
    /\ UNCHANGED <<store, unavailable, availableClientsCache, fan, dateVars, metricVars, route, hookVars, scoreVars, per, trend, fw>>

\* one task of the slice settles, in any order
CardSettle(t) ==
    /\ card.pc = "await"
    /\ t \in card.inflight
    /\ card' = [card EXCEPT !.inflight = @ \ {t},
                            !.got = @ @@ (t :> TaskKpis(card, t)),
                            !.order = Append(@, t),
                            !.overtaken = @ \/ \E j, k \in DOMAIN taskBatch(card) :
                                                  /\ j < k
                                                  /\ taskBatch(card)[k] = t
                                                  /\ taskBatch(card)[j] \in card.inflight]
    /\ UNCHANGED <<store, unavailable, availableClientsCache, fan, dateVars, metricVars, route, hookVars, scoreVars, per, trend, fw>>

\* Promise.all resolves: every result is stored in its slot, the loop advances
CardStore ==
    /\ card.pc = "await"
    /\ card.inflight = {}
    /\ card' = [card EXCEPT !.pc = "loop", !.i = @ + card.batchSize,
                            !.queryResults = StoreBatch(@, taskBatch(card), card.got, card.order)]
    /\ UNCHANGED <<store, unavailable, availableClientsCache, fan, dateVars, metricVars, route, hookVars, scoreVars, per, trend, fw>>

\* after the loop: the scorecards are built from the slots, the data is
\* returned and finally closes the client
CardReturn ==
    LET weekResults(client) == card.queryResults[client]
        currentKPIs(client) ==
            IF weekResults(client)[1] = Null THEN emptyPeriodKPIs ELSE weekResults(client)[1]
    IN  /\ card.pc = "loop"
        /\ card.i >= Len(allQueryTasks(card.availableClients))
        /\ card' = [card EXCEPT !.pc = "done", !.closed = TRUE,
                       !.result =
                           [status |-> "ok",
                            clients |-> [n \in DOMAIN card.availableClients |->
                                ScorecardOf(card.availableClients[n],
                                    currentKPIs(card.availableClients[n]),
                                    averageWeeklyKPIs(BaselineWeeks(
                                        weekResults(card.availableClients[n]))))],
                            currentRange |-> card.currentRange]]
        /\ UNCHANGED <<store, unavailable, availableClientsCache, fan, dateVars, metricVars, route, hookVars, scoreVars, per, trend, fw>>

CardNext ==
    \/ CardStartCached
    \/ CardStartListing
    \/ CardListed
    \/ CardListFailed
    \/ CardDispatch
    \/ \E t \in card.inflight : CardSettle(t)
    \/ CardStore
    \/ CardReturn

SpecCard == CardInit /\ [][CardNext]_vars


-----------------------------------------------------------------------------
(* Claims C24 and C25 *)

WindowStart(k) == toDateTime(card.weekRanges[k].start)
WindowEnd(k) == toDateTime(card.weekRanges[k].end)

\* C24: each of the scorecard's five windows runs from 00:00:00 of a day to
\* 23:59:59 of the sixth day after it; baseline period k ends on the day
\* before period k - 1 starts, so the windows are disjoint and contiguous and
\* cover the 35 consecutive days that end today.
C24_FiveContiguousSevenDayWindows ==
    card.pc # "idle" =>
        /\ Len(card.weekRanges) = 5
        /\ \A k \in 1 .. 5 :
              /\ card.weekRanges[k].start.sec = 0
              /\ card.weekRanges[k].end.sec = 86399
              /\ WindowEnd(k) - WindowStart(k) + 1 = 7 * 86400
        /\ \A k \in 2 .. 5 : WindowEnd(k) + 1 = WindowStart(k - 1)
        /\ WindowEnd(1) = card.now.day * 86400 + 86399
        /\ WindowStart(5) = (card.now.day - 34) * 86400

\* the queries of windows that reach back over a year end were issued at noon
C24_WindowsAcrossYearEnd ==
    /\ card.pc = "await"
    /\ card.now.ms # StartOfDay
    /\ card.weekRanges[5].start.y < card.weekRanges[1].end.y

AllBatchesDone ==
    /\ card.pc \in {"loop", "done"}
    /\ card.result.status # "error"
    /\ card.i >= Len(allQueryTasks(card.availableClients))

\* C25: after all scorecard batches have completed, the slot of every client
\* and window index holds the result of the task issued for that client and
\* window, and no slot is empty, whatever the completion order and failures.
C25_EverySlotHoldsItsTaskResult ==
    AllBatchesDone =>
        \A n \in DOMAIN card.availableClients : \A w \in 0 .. 4 :
            /\ card.queryResults[card.availableClients[n]][w + 1] # Null
            /\ card.queryResults[card.availableClients[n]][w + 1] =
                   TaskKpis(card, QueryTask(card.availableClients[n], w))

\* the batches of several clients completed after a task overtook an earlier
\* one and a task failed, with slots that differ from one another
C25_SlotsAfterOvertakingAndFailure ==
    /\ AllBatchesDone
    /\ card.pc = "done"
    /\ Len(card.availableClients) >= 2
    /\ card.overtaken
    /\ unavailable # {}
    /\ card.queryResults["aca"][1] # card.queryResults["aca"][2]
    /\ card.queryResults["aca"][1] # card.queryResults["cps"][1]


-----------------------------------------------------------------------------
(* Specification of fetchWithRetry with the response cache: GET calls for  *)
(* a URL are started while the clock advances; a call returns a cache      *)
(* entry that has not expired, or runs the retry loop, each attempt with   *)
(* its own timeout, and stores a parsed response in the cache.             *)

\* the option retries is drawn from 0 .. MaxRetries
MaxRetries == 3
\* the option cacheTTL is drawn from 1 .. MaxTTL ticks of the clock
MaxTTL == 2
\* the clock (Date.now()) advances up to MaxClock ticks
MaxClock == 3
\* at most MaxFetchCalls calls of fetchWithRetry are started
MaxFetchCalls == 2
\* retryDelay = 1000 by default
RETRY_DELAY == 1000

RECURSIVE Pow2(_)
Pow2(k) == IF k = 0 THEN 1 ELSE 2 * Pow2(k - 1)

\* a wait that does not grow with the attempt
backoff_constant(retryDelay, attempt) == retryDelay

\* retryDelay * Math.pow(2, attempt)
backoff(retryDelay, attempt) == retryDelay * Pow2(attempt)

\* this.cache.get(key)
CacheEntry(cache, key) ==
    IF \E e \in cache : e.key = key THEN CHOOSE e \in cache : e.key = key ELSE Null

\* a get that hands out the entry whatever its age
cacheGet_withoutExpiry(cache, key, now) ==
    IF CacheEntry(cache, key) = Null THEN Null ELSE CacheEntry(cache, key).data

\* SimpleCache.get: null without an entry or when Date.now() > entry.expiresAt
cacheGet(cache, key, now) ==
    IF CacheEntry(cache, key) = Null THEN Null
    ELSE IF now > CacheEntry(cache, key).expiresAt THEN Null
    ELSE CacheEntry(cache, key).data

\* the entries after a get: an expired entry is deleted
cacheAfterGet(cache, key, now) ==
    {e \in cache : ~(e.key = key /\ now > e.expiresAt)}

\* SimpleCache.set: the entry of the key is replaced
cacheSet(cache, key, data, ttl, now) ==
    {e \in cache : e.key # key} \cup {[key |-> key, data |-> data, expiresAt |-> now + ttl]}

\* a call of fetchWithRetry up to its first await: the cached data is
\* returned, or the first attempt is issued
NewFwCall(f, url) ==
    LET Started(cached) ==
            [url |-> url, startedAt |-> f.now, seen |-> CacheEntry(f.cache, url),
             fromCache |-> cached # Null,
             pc |-> IF cached # Null THEN "resolved" ELSE "fetching",
             attempt |-> 0, issued |-> IF cached # Null THEN 0 ELSE 1,
             waits |-> << >>, answers |-> << >>, timedOut |-> FALSE,
             result |-> cached]
    IN  Started(cacheGet(f.cache, url, f.now))

\* the catch and the 5xx branch of the loop: sleep and continue while
\* attempt < retries, otherwise the error leaves the function
FwRetryOrThrow(f, call, final) ==
    IF call.attempt < f.retries
    THEN [call EXCEPT !.pc = "sleeping",
                      !.waits = Append(@, backoff(RETRY_DELAY, call.attempt))]
    ELSE [call EXCEPT !.pc = "rejected", !.result = final]

\* how the loop treats an answer: it returns, throws at once, or may retry
AnswerKind(outcome) ==
    IF outcome \in {"ok", "notFound"} THEN outcome ELSE "retryable"

\* one attempt of the loop is answered
FwAttemptAnswered(f, call, outcome) ==
    CASE outcome = "ok" ->
            [call EXCEPT !.pc = "resolved", !.result = ResponseData(call.url)]
      [] outcome = "notFound" ->
            [call EXCEPT !.pc = "rejected",
                         !.result = FetchError("Request failed with status 404", 404,
                                               FALSE, FALSE)]
      [] outcome = "serverError" ->
            FwRetryOrThrow(f, call, FetchError("Request failed with status 500", 500,
                                               FALSE, FALSE))
      [] outcome = "networkError" ->
            FwRetryOrThrow(f, call, FetchError("Network error - please check your connection",
                                               0, FALSE, TRUE))
      [] OTHER ->
            FwRetryOrThrow(f, call, PlainError("SyntaxError", "Unexpected token"))

FetchInit ==
    /\ \E retries \in 0 .. MaxRetries, cacheTTL \in 1 .. MaxTTL :
          fw = [now |-> 0, cache |-> {}, calls |-> << >>, retries |-> retries,
                cacheTTL |-> cacheTTL]
    /\ store = {}
    /\ per = [pc |-> "idle"]
    /\ trend = [pc |-> "idle"]
    /\ card = [pc |-> "idle"]
    /\ DateIdle
    /\ MetricsIdle
    /\ FanIdle
    /\ RouteIdle
    /\ HookIdle
    /\ ScoreIdle

\* fetchWithRetry(url, { retries, cacheTTL }) is called
FwCall(url) ==
    /\ Len(fw.calls) < MaxFetchCalls
    /\ fw' = [fw EXCEPT !.calls = Append(@, NewFwCall(fw, url)),
                        !.cache = cacheAfterGet(@, url, fw.now)]
    /\ UNCHANGED <<store, dateVars, metricVars, fanVars, route, hookVars, scoreVars, per, trend, card>>

\* the server or the network answers the attempt in flight; a parsed
\* response is stored in the cache
FwAnswered(c, outcome) ==
    /\ fw.calls[c].pc = "fetching"
    /\ ~fw.calls[c].timedOut
    /\ fw' = [fw EXCEPT !.calls[c] = FwAttemptAnswered(
                                         fw, [@ EXCEPT !.answers = Append(@, AnswerKind(outcome))],
                                         outcome),
                        !.cache = IF outcome = "ok"
                                  THEN cacheSet(@, fw.calls[c].url, ResponseData(fw.calls[c].url),
                                                fw.cacheTTL, fw.now)
                                  ELSE @]
    /\ UNCHANGED <<store, dateVars, metricVars, fanVars, route, hookVars, scoreVars, per, trend, card>>

\* the timer of fetchWithTimeout fires: its controller aborts the fetch
FwTimerFires(c) ==
    /\ fw.calls[c].pc = "fetching"
    /\ ~fw.calls[c].timedOut
    /\ fw' = [fw EXCEPT !.calls[c].timedOut = TRUE]
    /\ UNCHANGED <<store, dateVars, metricVars, fanVars, route, hookVars, scoreVars, per, trend, card>>

\* the aborted fetch rejects with an AbortError: FetchError('Request timed out') is thrown
FwAborted(c) ==
    /\ fw.calls[c].pc = "fetching"
    /\ fw.calls[c].timedOut
    /\ fw' = [fw EXCEPT !.calls[c].pc = "rejected",
                        !.calls[c].answers = Append(@, "timeout"),
                        !.calls[c].result = FetchError("Request timed out", 0, TRUE, FALSE)]
    /\ UNCHANGED <<store, dateVars, metricVars, fanVars, route, hookVars, scoreVars, per, trend, card>>

\* the sleep ends: the next attempt is issued with a new timer
FwSleepDone(c) ==
    /\ fw.calls[c].pc = "sleeping"
    /\ fw' = [fw EXCEPT !.calls[c].pc = "fetching", !.calls[c].attempt = @ + 1,
                        !.calls[c].issued = @ + 1, !.calls[c].timedOut = FALSE]
    /\ UNCHANGED <<store, dateVars, metricVars, fanVars, route, hookVars, scoreVars, per, trend, card>>

\* the clock advances
FwTick ==
    /\ fw.now < MaxClock
    /\ fw' = [fw EXCEPT !.now = @ + 1]
    /\ UNCHANGED <<store, dateVars, metricVars, fanVars, route, hookVars, scoreVars, per, trend, card>>

\* a step of a call: a response, a timer, an abort or the end of a sleep
FwProgress ==
    \/ \E c \in DOMAIN fw.calls, outcome \in Outcomes : FwAnswered(c, outcome)
    \/ \E c \in DOMAIN fw.calls : FwTimerFires(c)
    \/ \E c \in DOMAIN fw.calls : FwAborted(c)
    \/ \E c \in DOMAIN fw.calls : FwSleepDone(c)

FetchNext ==
    \/ \E url \in Urls : FwCall(url)
    \/ FwProgress
    \/ FwTick

SpecFetch == FetchInit /\ [][FetchNext]_vars

\* every pending attempt is answered or timed out, every sleep ends
SpecFetchFair == SpecFetch /\ WF_vars(FwProgress)


-----------------------------------------------------------------------------
(* Claims C27 and C28 *)

Settled(call) == call.pc \in {"resolved", "rejected"}

AttemptsAndWaits ==
    \A c \in DOMAIN fw.calls :
        /\ fw.calls[c].issued <= fw.retries + 1
        /\ Len(fw.calls[c].waits) =
               IF fw.calls[c].pc = "sleeping" THEN fw.calls[c].issued
               ELSE IF fw.calls[c].fromCache THEN 0 ELSE fw.calls[c].issued - 1
        /\ \A k \in DOMAIN fw.calls[c].waits :
               fw.calls[c].waits[k] = RETRY_DELAY * (2 ^ (k - 1))
        /\ \A k \in DOMAIN fw.calls[c].answers :
               \/ /\ fw.calls[c].answers[k] \in {"ok", "notFound", "timeout"}
                  /\ k = Len(fw.calls[c].answers)
                  /\ k = fw.calls[c].issued
                  /\ Settled(fw.calls[c])
               \/ /\ fw.calls[c].answers[k] = "retryable"
                  /\ k <= fw.retries => (/\ k <= Len(fw.calls[c].waits)
                                         /\ fw.calls[c].waits[k] = RETRY_DELAY * (2 ^ (k - 1)))
                  /\ k > fw.retries => fw.calls[c].pc = "rejected"

NoAttemptAfterSettling ==
    \A c \in DOMAIN fw.calls : Settled(fw.calls[c]) => fw'.calls[c] = fw.calls[c]

C28_CacheHitsAndWrites ==
    /\ \A c \in DOMAIN fw.calls :
          /\ fw.calls[c].fromCache <=>
                 (fw.calls[c].seen # Null /\ fw.calls[c].startedAt <= fw.calls[c].seen.expiresAt)
          /\ fw.calls[c].fromCache =>
                 /\ fw.calls[c].issued = 0
                 /\ fw.calls[c].pc = "resolved"
                 /\ fw.calls[c].result = fw.calls[c].seen.data
                 /\ \E b \in DOMAIN fw.calls :
                       /\ b # c
                       /\ fw.calls[b].url = fw.calls[c].url
                       /\ fw.calls[b].pc = "resolved"
                       /\ ~fw.calls[b].fromCache
          /\ ~fw.calls[c].fromCache => fw.calls[c].issued >= 1
    /\ \A e \in fw.cache :
          \E c \in DOMAIN fw.calls :
              /\ fw.calls[c].url = e.key
              /\ fw.calls[c].pc = "resolved"
              /\ ~fw.calls[c].fromCache
              /\ fw.calls[c].result = e.data

\* a call went to the network although the cache held an entry, which had expired
C28_ExpiredEntryRefetched ==
    /\ Len(fw.calls) = 2
    /\ fw.calls[1].pc = "resolved"
    /\ fw.calls[2].seen # Null
    /\ ~fw.calls[2].fromCache
    /\ fw.calls[2].pc = "resolved"


-----------------------------------------------------------------------------
(* Claim C29 *)

\* the request the last run of the effect started has not settled
LatestInFlight ==
    /\ hook.pc = "mounted"
    /\ requests[hook.controller].pc \in {"fetching", "sleeping"}

\* C29: while the most recently started request of the hook is in flight,
\* isLoading is true; a superseded request that settles does not clear it.
C29_LoadingWhileLatestInFlight == LatestInFlight => hook.isLoading

=============================================================================
